---- MODULE Spec2Model ----
(***************************************************************************)
(* A model of tcltl.cc: the adapter that exposes a timed-automata zone     *)
(* graph (tchecker) as a Kripke structure (Spot).                          *)
(*                                                                         *)
(*  - convert_aps / tc_model::kripke : the proposition compiler            *)
(*  - tcltl_state                    : reference-counted pooled handles    *)
(*  - tcltl_succ_iterator            : successor iterators over a batch    *)
(*  - tcltl_kripke                   : the adapter itself                  *)
(*                                                                         *)
(* Texts are sequences of one-character strings.  A BDD is the set of the  *)
(* valuations that satisfy it (a valuation is the set of the variables it  *)
(* makes true), so bddtrue is every valuation and bddfalse is {}.          *)
(***************************************************************************)
EXTENDS Integers, Sequences, FiniteSets, TLC

\* ------------------------------------------------------------------ bounds
\* Longest proposition text enumerated exhaustively.
MaxLen == 4
\* Largest batch of propositions drawn from TextPool.
MaxBatch == 2
\* Cells of the state pool the adapter may have in use at once.
MaxCells == 3
\* Cells in use at once when handles are exercised on their own.
MaxHandles == 2
\* Largest reference count a handle is driven to.
MaxCount == 3
\* Successor iterators alive at once.
MaxIters == 1
\* References the consumer of the adapter owns at once.
MaxHeld == 1

\* ------------------------------------------------------- texts and tables
\* The characters the exhaustive texts are built from.
Alphabet == {"x", "p", "i", ".", "=", "!", "<", ">", "3", " "}

Digits == <<"0", "1", "2", "3", "4", "5", "6", "7", "8", "9">>

IsDigit(c) == \E d \in 1..10 : Digits[d] = c

DigitVal(c) == (CHOOSE d \in 1..10 : Digits[d] = c) - 1

\* The blanks convert_aps skips.
IsBlank(c) == c = " " \/ c = "\t"

\* The characters at which the name scan stops.
IsCmpChar(c) == c \in {"=", "<", "!", ">"}

\* The integer variables of the model: name -> id (varsidx.key).
IntVars == { <<<<"x">>, 0>>, <<<<"y", "2">>, 1>> }

\* The processes of the system: name -> id (procidx.key).
Procs == { <<<<"p">>, 0>>, <<<<"q">>, 1>> }

\* The locations of the system: <<process name, location name>> -> id.
Locs == { <<<<"p">>, <<"i">>, 0>>, <<<<"p">>, <<"b">>, 1>>,
          <<<<"q">>, <<"j">>, 2>>, <<<<"q">>, <<"i">>, 3>> }

\* varsidx.key(name), -1 for std::invalid_argument.
VarKey(name) ==
  IF \E e \in IntVars : e[1] = name
  THEN (CHOOSE e \in IntVars : e[1] = name)[2]
  ELSE -1

\* procidx.key(name), -1 for std::invalid_argument.
ProcKey(name) ==
  IF \E e \in Procs : e[1] = name
  THEN (CHOOSE e \in Procs : e[1] = name)[2]
  ELSE -1

\* sys.location(process, location)->id(), -1 for std::invalid_argument.
LocKey(pname, lname) ==
  IF \E e \in Locs : e[1] = pname /\ e[2] = lname
  THEN (CHOOSE e \in Locs : e[1] = pname /\ e[2] = lname)[3]
  ELSE -1

\* ------------------------------------------------- the proposition parser
\* One diagnostic appended to err: its kind, the proposition text str, and
\* the one or two pieces of text the message quotes.
Msg(kind, str, a, b) == [kind |-> kind, str |-> str, a |-> a, b |-> b]

NoMsg == Msg("none", <<>>, <<>>, <<>>)

\* A compiled rule (one_prop without its bddvar), or a failure with its message.
Rule(var_num, op, val) ==
  [ok |-> TRUE, var_num |-> var_num, op |-> op, val |-> val, msg |-> NoMsg]

Fail(msg) ==
  [ok |-> FALSE, var_num |-> -1, op |-> "none", val |-> 0, msg |-> msg]

\* while (*s && (*s == ' ' || *s == '\t')) ++s;
RECURSIVE SkipBlanks(_)
SkipBlanks(s) ==
  IF s # <<>> /\ IsBlank(Head(s)) THEN SkipBlanks(Tail(s)) ELSE s

\* A name scan that copies the blanks into the name.
RECURSIVE ScanNameKeepsBlanks(_, _, _)
ScanNameKeepsBlanks(s, name, lastdot) ==
  IF s = <<>> \/ IsCmpChar(Head(s))
  THEN [name |-> name, lastdot |-> lastdot, rest |-> s]
  ELSE ScanNameKeepsBlanks(Tail(s), Append(name, Head(s)),
                           IF Head(s) = "." THEN Len(name) + 1 ELSE lastdot)

\* The name scan: copies the characters up to the first of = < ! > into
\* name, dropping blanks, and remembers where the last '.' went (0: none).
RECURSIVE ScanName(_, _, _)
ScanName(s, name, lastdot) ==
  IF s = <<>> \/ IsCmpChar(Head(s))
  THEN [name |-> name, lastdot |-> lastdot, rest |-> s]
  ELSE IF IsBlank(Head(s))
       THEN ScanName(Tail(s), name, lastdot)
       ELSE ScanName(Tail(s), Append(name, Head(s)),
                     IF Head(s) = "." THEN Len(name) + 1 ELSE lastdot)

\* The characters strtol skips before the number (isspace).
IsSpace(c) == c \in {" ", "\t", "\n", "\r"}

RECURSIVE SkipSpace(_)
SkipSpace(s) ==
  IF s # <<>> /\ IsSpace(Head(s)) THEN SkipSpace(Tail(s)) ELSE s

\* The number of leading decimal digits of s.
RECURSIVE DigitRun(_)
DigitRun(s) ==
  IF s # <<>> /\ IsDigit(Head(s)) THEN 1 + DigitRun(Tail(s)) ELSE 0

\* The build is LP64: a long is four 16-bit limbs, an int is two.  A long
\* magnitude is written as its limbs, the least significant first.
LimbBase == 65536

\* 10 * m + d on the limbs of m; over tells that 64 bits do not hold it.
MulAddDigit(m, d) ==
  LET a0 == 10 * m[1] + d
      a1 == 10 * m[2] + (a0 \div LimbBase)
      a2 == 10 * m[3] + (a1 \div LimbBase)
      a3 == 10 * m[4] + (a2 \div LimbBase)
  IN [limbs |-> <<a0 % LimbBase, a1 % LimbBase, a2 % LimbBase, a3 % LimbBase>>,
      over  |-> (a3 \div LimbBase) # 0]

\* The magnitude a run of decimal digits writes.
RECURSIVE DigitsValue(_, _)
DigitsValue(s, acc) ==
  IF s = <<>> THEN acc
  ELSE LET n == MulAddDigit(acc.limbs, DigitVal(Head(s)))
       IN DigitsValue(Tail(s), [limbs |-> n.limbs, over |-> acc.over \/ n.over])

\* The long strtol returns for a sign and a magnitude, as the limbs of its
\* two's complement: out of range it is LONG_MAX or LONG_MIN.
LongOf(neg, m) ==
  LET top    == LimbBase \div 2
      l      == m.limbs
      tooBig == IF neg
                THEN \/ m.over \/ l[4] > top
                     \/ l[4] = top /\ (l[1] # 0 \/ l[2] # 0 \/ l[3] # 0)
                ELSE m.over \/ l[4] >= top
      c1     == IF l[1] = 0 THEN 1 ELSE 0
      c2     == IF l[1] = 0 /\ l[2] = 0 THEN 1 ELSE 0
      c3     == IF l[1] = 0 /\ l[2] = 0 /\ l[3] = 0 THEN 1 ELSE 0
  IN IF tooBig
     THEN IF neg THEN <<0, 0, 0, top>>
          ELSE <<LimbBase - 1, LimbBase - 1, LimbBase - 1, top - 1>>
     ELSE IF neg
          THEN << (LimbBase - l[1]) % LimbBase,
                  (LimbBase - 1 - l[2] + c1) % LimbBase,
                  (LimbBase - 1 - l[3] + c2) % LimbBase,
                  (LimbBase - 1 - l[4] + c3) % LimbBase >>
          ELSE l

\* int val = (a long): the conversion keeps the two low limbs.
ToInt(l) ==
  IF l[2] >= LimbBase \div 2
  THEN (l[2] - LimbBase) * LimbBase + l[1]
  ELSE l[2] * LimbBase + l[1]

\* strtol(s, &s_end, 10) stored in an int: white space, an optional sign,
\* decimal digits.  conv is FALSE when no digit was read (s_end == s); rest
\* is s_end.
Strtol(s) ==
  LET t    == SkipSpace(s)
      neg  == t # <<>> /\ Head(t) = "-"
      u    == IF t # <<>> /\ Head(t) \in {"-", "+"} THEN Tail(t) ELSE t
      n    == DigitRun(u)
      zero == [limbs |-> <<0, 0, 0, 0>>, over |-> FALSE]
  IN IF n = 0
     THEN [conv |-> FALSE, val |-> 0, rest |-> s]
     ELSE [conv |-> TRUE,
           val  |-> ToInt(LongOf(neg, DigitsValue(SubSeq(u, 1, n), zero))),
           rest |-> SubSeq(u, n + 1, Len(u))]

\* The comparator switch: the operator read at the head of s and what
\* follows it, or op "none" for the report_error label.
ParseOp(s) ==
  LET c  == Head(s)
      c2 == IF Len(s) >= 2 THEN s[2] ELSE "NUL"
      drop(k) == SubSeq(s, k + 1, Len(s))
  IN CASE c = "!" -> IF c2 # "=" THEN [op |-> "none", rest |-> s]
                     ELSE [op |-> "NE", rest |-> drop(2)]
       [] c = "=" -> IF c2 # "=" THEN [op |-> "none", rest |-> s]
                     ELSE [op |-> "EQ", rest |-> drop(2)]
       [] c = "<" -> IF c2 = "=" THEN [op |-> "LE", rest |-> drop(2)]
                     ELSE [op |-> "LT", rest |-> drop(1)]
       [] c = ">" -> IF c2 = "=" THEN [op |-> "GE", rest |-> drop(2)]
                     ELSE [op |-> "GT", rest |-> drop(1)]
       [] OTHER   -> [op |-> "none", rest |-> s]

\* NAME resolved to a variable: the comparator and the integer.
ParseComparison(str, varid, s) ==
  IF s = <<>>
  THEN Rule(varid, "NE", 0)
  ELSE LET o == ParseOp(s)
       IN IF o.op = "none"
          THEN Fail(Msg("unexpected", str, s, <<>>))
          ELSE LET t == SkipBlanks(o.rest)
                   n == Strtol(t)
               IN IF ~n.conv
                  THEN Fail(Msg("bad_int", <<>>, t, <<>>))
                  ELSE LET r == SkipBlanks(n.rest)
                       IN IF r # <<>>
                          THEN Fail(Msg("unexpected", str, r, <<>>))
                          ELSE Rule(varid, o.op, n.val)

\* NAME is no variable: PROCESS.LOCATION, split at the last '.'.
ParseLocation(str, name, lastdot, s) ==
  LET pname  == IF lastdot > 0 THEN SubSeq(name, 1, lastdot - 1) ELSE name
      lname  == SubSeq(name, lastdot + 1, Len(name))
      procid == IF lastdot > 0 THEN ProcKey(pname) ELSE -1
      locid  == LocKey(pname, lname)
  IN IF procid < 0
     THEN Fail(Msg("no_var_or_proc", str, pname, <<>>))
     ELSE IF locid < 0
          THEN Fail(Msg("no_location", <<>>, lname, pname))
          ELSE IF s # <<>>
               THEN Fail(Msg("trailing", str, s, <<>>))
               ELSE Rule(procid, "AT", locid)

\* The body of the loop of convert_aps for one proposition text, up to the
\* point where the rule is registered.
ParseProp(str) ==
  LET s0 == SkipBlanks(str)
  IN IF s0 = <<>>
     THEN Fail(Msg("cannot_parse", str, <<>>, <<>>))
     ELSE LET sc == ScanName(s0, <<>>, 0)
          IN IF sc.name = <<>>
             THEN Fail(Msg("cannot_parse", str, <<>>, <<>>))
             ELSE IF VarKey(sc.name) < 0
                  THEN ParseLocation(str, sc.name, sc.lastdot, sc.rest)
                  ELSE ParseComparison(str, VarKey(sc.name), sc.rest)

\* ------------------------------------------- the shared formula dictionary
\* spot::bdd_dict as tcltl.cc uses it: a map from the registered formulas
\* (a proposition is named by its text) to a BDD variable number and the
\* set of owners that registered it.
EmptyDict == [f \in {} |-> [var |-> 0, owners |-> {}]]

UsedVars(d) == { d[f].var : f \in DOMAIN d }

\* The variable number a new formula gets: the lowest one not in use.
FreshVar(d) ==
  CHOOSE n \in 0..Cardinality(DOMAIN d) :
    n \notin UsedVars(d) /\ \A m \in 0..(n - 1) : m \in UsedVars(d)

\* dict->register_proposition(f, owner): the dictionary afterwards.
RegisterProposition(d, f, owner) ==
  IF f \in DOMAIN d
  THEN [d EXCEPT ![f].owners = @ \cup {owner}]
  ELSE [g \in DOMAIN d \cup {f} |->
          IF g = f THEN [var |-> FreshVar(d), owners |-> {owner}] ELSE d[g]]

\* dict->unregister_all_my_variables(owner): a formula no owner holds any
\* more leaves the dictionary and its variable number is free again.
UnregisterAllMyVariables(d, owner) ==
  [f \in { g \in DOMAIN d : d[g].owners \ {owner} # {} } |->
     [d[f] EXCEPT !.owners = @ \ {owner}]]

\* The formulas owner has registered.
OwnedBy(d, owner) == { f \in DOMAIN d : owner \in d[f].owners }

\* ------------------------------------------------------------- the inputs
\* The dead formula: false, true, or an atomic proposition with a name.
DeadFF == [kind |-> "ff", name |-> <<>>]
DeadTT == [kind |-> "tt", name |-> <<>>]
DeadAP(name) == [kind |-> "ap", name |-> name]

DeadFormulas == {DeadFF, DeadTT, DeadAP(<<"d">>)}

\* *ap == dead
IsDead(ap, d) == d.kind = "ap" /\ d.name = ap

\* Every text of at most MaxLen characters of Alphabet.
AllTexts == UNION { [1..n -> Alphabet] : n \in 0..MaxLen }

\* Proposition texts for the batches: well formed ones, the dead
\* proposition, and one for each kind of failure.
TextPool ==
  << <<"x">>,
     <<"x", "=", "=", "3">>,
     <<"y", "2", " ", "<", "=", " ", "-", "1", "2">>,
     <<"p", ".", "i">>,
     <<"q", ".", "j">>,
     <<"d">>,
     <<"p", ".", "j">>,
     <<"z", ".", "i">>,
     <<"p", ".", "i", "=", "=", "0">>,
     <<"x", "=", "3">>,
     <<"x", ">", "=", " ", "y", "2">>,
     <<"x", "<", "3", "p">>,
     <<" ", " ">>,
     <<"x", "=", "=", "4", "2", "9", "4", "9", "6", "7", "2", "9", "9">>,
     <<"x", "<", " ", "=", "3">>,
     <<"x", "<", "=", "3">>,
     <<"x", "=", "=", "1", " ", "2">>,
     <<" ", "x", " ", "=", "=", " ", "3", " ">> >>

\* The sequences of at most n distinct texts of TextPool, in any order.
RECURSIVE Batches(_)
Batches(n) ==
  IF n = 0 THEN { <<>> }
  ELSE LET shorter == Batches(n - 1)
           longest == { b \in shorter : Len(b) = n - 1 }
           fresh(b) == { k \in 1..Len(TextPool) :
                           \A j \in 1..Len(b) : b[j] # TextPool[k] }
       IN shorter \cup
          UNION { { Append(b, TextPool[k]) : k \in fresh(b) } : b \in longest }

\* ------------------------------------------------------------------ state
VARIABLES
  pc,          \* where tc_model::kripke and its caller stand
  aps,         \* to_observe: the proposition texts, in iteration order
  dead,        \* the dead formula
  apIdx,       \* convert_aps: the proposition the loop is at
  ps,          \* the prop_list (out in convert_aps, ps_ in the adapter)
  psState,     \* "none", "live" or "freed": the prop_list object
  errors,      \* convert_aps: int errors
  err,         \* convert_aps: the messages written to err, in order
  dict,        \* the shared bdd_dict
  thrown,      \* the exception the caller of kripke() received, if any
  alive_prop,  \* tcltl_kripke::alive_prop
  dead_prop,   \* tcltl_kripke::dead_prop
  zg,          \* the zone graph the builder explores
  cells,       \* statepool_: the tcltl_state in each cell
  hist,        \* per cell: clone, destroy and deallocate calls since allocate
  held,        \* per cell: the references the consumer owns
  iters,       \* the tcltl_succ_iterator objects
  iter_cache,  \* twa::iter_cache_: 0 or the cached iterator
  ret,         \* the value the last const call returned
  pools,       \* allocator_ (the zone-graph states) and statepool_
  cli          \* main: the command line, the formula, the output, the exit code

compileData == <<aps, dead, apIdx, ps, psState, errors, err, dict, thrown>>

compileVars == <<pc, compileData>>

adapterVars == <<alive_prop, dead_prop, zg, cells, hist, held, iters,
                 iter_cache, ret>>

vars == <<compileVars, adapterVars, pools, cli>>

\* ------------------------------------------------------------------- BDDs
\* The BDD variables: one for each proposition of a batch and the dead one.
BddVars == 0..MaxBatch

Valuations == SUBSET BddVars

BddTrue == Valuations

BddFalse == {}

BddIthVar(v) == { a \in Valuations : v \in a }

BddNithVar(v) == { a \in Valuations : v \notin a }

BddAnd(f, g) == f \cap g

\* ------------------------------------------- convert_aps, tc_model::kripke
\* What convert_aps has built so far.
ConvState(l, n, e, d) == [ps |-> l, errors |-> n, err |-> e, dict |-> d]

\* A loop body that registers the proposition before it parses it.
ConvertOneRegisterFirst(st, ap, deadf) ==
  IF IsDead(ap, deadf)
  THEN st
  ELSE LET r  == ParseProp(ap)
           d2 == RegisterProposition(st.dict, ap, "ps")
       IN IF r.ok
          THEN ConvState(
                 Append(st.ps, [var_num |-> r.var_num, op |-> r.op,
                                val |-> r.val, bddvar |-> d2[ap].var]),
                 st.errors, st.err, d2)
          ELSE ConvState(st.ps, st.errors + 1, Append(st.err, r.msg), d2)

\* One iteration of the loop of convert_aps over proposition ap.
ConvertOne(st, ap, deadf) ==
  IF IsDead(ap, deadf)
  THEN st
  ELSE LET r == ParseProp(ap)
       IN IF r.ok
          THEN LET d2 == RegisterProposition(st.dict, ap, "ps")
               IN ConvState(
                    Append(st.ps, [var_num |-> r.var_num, op |-> r.op,
                                   val |-> r.val, bddvar |-> d2[ap].var]),
                    st.errors, st.err, d2)
          ELSE ConvState(st.ps, st.errors + 1, Append(st.err, r.msg), st.dict)

\* The whole loop of convert_aps, from proposition k on.
RECURSIVE ConvertAll(_, _, _, _)
ConvertAll(st, texts, k, deadf) ==
  IF k > Len(texts) THEN st
  ELSE ConvertAll(ConvertOne(st, texts[k], deadf), texts, k + 1, deadf)

\* The translator of main registers the propositions of the formula for
\* the automaton of the formula before kripke() is called.
RECURSIVE RegisterAll(_, _, _, _)
RegisterAll(d, texts, k, owner) ==
  IF k > Len(texts) THEN d
  ELSE RegisterAll(RegisterProposition(d, texts[k], owner), texts, k + 1, owner)

NotThrown == [raised |-> FALSE, what |-> <<>>]

\* prop_list* ps = new prop_list; and the call of convert_aps.
KripkeCall ==
  /\ pc = "kripke"
  /\ pc' = "convert"
  /\ psState' = "live"
  /\ ps' = <<>>
  /\ apIdx' = 1
  /\ errors' = 0
  /\ err' = <<>>
  /\ UNCHANGED <<aps, dead, dict, thrown, adapterVars, pools, cli>>

\* One proposition of the batch.
ConvertAp ==
  /\ pc = "convert"
  /\ apIdx <= Len(aps)
  /\ LET st == ConvertOne(ConvState(ps, errors, err, dict), aps[apIdx], dead)
     IN /\ ps' = st.ps
        /\ errors' = st.errors
        /\ err' = st.err
        /\ dict' = st.dict
  /\ apIdx' = apIdx + 1
  /\ UNCHANGED <<pc, aps, dead, psState, thrown, adapterVars, pools, cli>>

\* if (errors) throw std::runtime_error(err.str());
ConvertThrow ==
  /\ pc = "convert"
  /\ apIdx > Len(aps)
  /\ errors # 0
  /\ pc' = "catch"
  /\ UNCHANGED <<aps, dead, apIdx, ps, psState, errors, err, dict, thrown,
                 adapterVars, pools, cli>>

\* convert_aps returns normally.
ConvertReturn ==
  /\ pc = "convert"
  /\ apIdx > Len(aps)
  /\ errors = 0
  /\ pc' = "ctor"
  /\ UNCHANGED <<aps, dead, apIdx, ps, psState, errors, err, dict, thrown,
                 adapterVars, pools, cli>>

\* A catch that frees the list without unregistering its variables.
KripkeCatchNoUnregister ==
  /\ pc = "catch"
  /\ psState' = "freed"
  /\ ps' = <<>>
  /\ thrown' = [raised |-> TRUE, what |-> err]
  /\ pc' = "failed"
  /\ UNCHANGED <<aps, dead, apIdx, errors, err, dict, adapterVars, pools, cli>>

\* catch (const std::runtime_error&): unregister, delete ps, rethrow.
KripkeCatch ==
  /\ pc = "catch"
  /\ dict' = UnregisterAllMyVariables(dict, "ps")
  /\ psState' = "freed"
  /\ ps' = <<>>
  /\ thrown' = [raised |-> TRUE, what |-> err]
  /\ pc' = "failed"
  /\ UNCHANGED <<aps, dead, apIdx, errors, err, adapterVars, pools, cli>>

\* A constructor that uses the positive variable for both conditions.
AliveDeadSameVar(deadf, d) ==
  IF deadf.kind = "ff"
  THEN [alive |-> BddTrue, dead |-> BddFalse, dict |-> d]
  ELSE IF deadf.kind = "tt"
       THEN [alive |-> BddTrue, dead |-> BddTrue, dict |-> d]
       ELSE LET d2  == RegisterProposition(d, deadf.name, "kripke")
                var == d2[deadf.name].var
            IN [alive |-> BddIthVar(var), dead |-> BddIthVar(var),
                dict |-> d2]

\* A constructor that exchanges the two conditions of a named dead
\* proposition.
AliveDeadExchanged(deadf, d) ==
  IF deadf.kind = "ff"
  THEN [alive |-> BddTrue, dead |-> BddFalse, dict |-> d]
  ELSE IF deadf.kind = "tt"
       THEN [alive |-> BddTrue, dead |-> BddTrue, dict |-> d]
       ELSE LET d2  == RegisterProposition(d, deadf.name, "kripke")
                var == d2[deadf.name].var
            IN [alive |-> BddIthVar(var), dead |-> BddNithVar(var),
                dict |-> d2]

\* The pair (alive_prop, dead_prop) the constructor computes, with the
\* dictionary after it registered the dead proposition for the adapter.
AliveDead(deadf, d) ==
  IF deadf.kind = "ff"
  THEN [alive |-> BddTrue, dead |-> BddFalse, dict |-> d]
  ELSE IF deadf.kind = "tt"
       THEN [alive |-> BddTrue, dead |-> BddTrue, dict |-> d]
       ELSE LET d2  == RegisterProposition(d, deadf.name, "kripke")
                var == d2[deadf.name].var
            IN [alive |-> BddNithVar(var), dead |-> BddIthVar(var),
                dict |-> d2]

\* tcltl_kripke::tcltl_kripke
Construct ==
  /\ pc = "ctor"
  /\ LET ad == AliveDead(dead, dict)
     IN /\ alive_prop' = ad.alive
        /\ dead_prop' = ad.dead
        /\ dict' = ad.dict
  /\ pc' = "made"
  /\ UNCHANGED <<aps, dead, apIdx, ps, psState, errors, err, thrown,
                 zg, pools, cli, cells, hist, held, iters, iter_cache, ret>>

\* The end of tc_model::kripke: register_ap for every observed
\* proposition, and for the dead one when it is a proposition.
KripkeReturn ==
  /\ pc = "made"
  /\ LET d1 == RegisterAll(dict, aps, 1, "kripke")
     IN dict' = IF dead.kind = "ap"
                THEN RegisterProposition(d1, dead.name, "kripke")
                ELSE d1
  /\ pc' = "ready"
  /\ UNCHANGED <<aps, dead, apIdx, ps, psState, errors, err, thrown,
                 adapterVars, pools, cli>>

\* --------------------------------------------------------- the zone graph
\* The zone-graph states (builder_t::state_ptr_t values).  Two entries are
\* two structurally different states; hash is hash_value(*zg), a size_t
\* given as its high and low words.
ZoneStateTable ==
  << [vloc |-> <<0, 2>>, ints |-> <<0, 0>>,   hash |-> [hi |-> 0, lo |-> 1]],
     [vloc |-> <<1, 2>>, ints |-> <<3, 0>>,   hash |-> [hi |-> 0, lo |-> 2]],
     [vloc |-> <<1, 3>>, ints |-> <<3, -12>>, hash |-> [hi |-> 1, lo |-> 2]],
     [vloc |-> <<0, 3>>, ints |-> <<4, 1>>,   hash |-> [hi |-> 0, lo |-> 2]] >>

ZStates == 1..Len(ZoneStateTable)

\* hash_value(*zg)
HashValue(z) == ZoneStateTable[z].hash

\* The conversion of a size_t to the unsigned hash_val_ keeps the low word.
ToUnsigned(h) == h.lo

\* The zone graphs explored: builder_.initial() and builder_.outgoing(z),
\* each in the order the builder yields the states.
ZoneGraphs ==
  { [init |-> <<1>>,    out |-> << <<2, 1>>, <<>>, <<>>, <<>> >>],
    [init |-> <<1>>,    out |-> << <<2>>, <<>>, <<>>, <<>> >>],
    [init |-> <<1, 2>>, out |-> << <<2>>, <<>>, <<>>, <<>> >>],
    [init |-> <<>>,     out |-> << <<>>, <<>>, <<>>, <<>> >>] }

\* ------------------------------------------------------------ tcltl_state
Cells == 1..MaxCells

\* A cell of the pool that holds no state.
FreeCell == [live |-> FALSE, count |-> 0, zs |-> 0, hash_val |-> 0]

FreeCells(cs) == { c \in Cells : ~cs[c].live }

\* statepool_.allocate(): the lowest free cell.
Allocate(cs) == CHOOSE c \in FreeCells(cs) : \A e \in FreeCells(cs) : c <= e

\* A constructor that hashes the address of the handle, not the state.
NewStateAddressHash(cs, c, z) ==
  [cs EXCEPT ![c] = [live |-> TRUE, count |-> 1, zs |-> z, hash_val |-> c]]

\* new(cell) tcltl_state(&statepool_, z): the constructor.
NewState(cs, c, z) ==
  [cs EXCEPT ![c] = [live |-> TRUE, count |-> 1, zs |-> z,
                     hash_val |-> ToUnsigned(HashValue(z))]]

\* tcltl_state::clone
CloneState(cs, c) == [cs EXCEPT ![c].count = @ + 1]

\* A destroy that tests the count before decrementing it: if (count_--).
DestroyStatePostDecrement(cs, c) ==
  IF cs[c].count # 0
  THEN [cs EXCEPT ![c].count = @ - 1]
  ELSE [cs EXCEPT ![c] = FreeCell]

\* tcltl_state::destroy: at count 0 the destructor drops zg_state_ and the
\* cell goes back to the pool.
DestroyState(cs, c) ==
  IF cs[c].count - 1 # 0
  THEN [cs EXCEPT ![c].count = @ - 1]
  ELSE [cs EXCEPT ![c] = FreeCell]

\* tcltl_state::hash
Hash(cs, c) == cs[c].hash_val

\* A compare that stops at the hashes.
CompareHashOnly(cs, a, b) ==
  IF a = b THEN 0
  ELSE IF cs[a].hash_val < cs[b].hash_val THEN -1
  ELSE IF cs[a].hash_val > cs[b].hash_val THEN 1
  ELSE 0

\* A compare that falls back on an order of the states (the < of the FIXME).
CompareOrdered(cs, a, b) ==
  IF a = b THEN 0
  ELSE IF cs[a].hash_val < cs[b].hash_val THEN -1
  ELSE IF cs[a].hash_val > cs[b].hash_val THEN 1
  ELSE IF cs[a].zs < cs[b].zs THEN -1
  ELSE IF cs[a].zs > cs[b].zs THEN 1 ELSE 0

\* tcltl_state::compare
Compare(cs, a, b) ==
  IF a = b THEN 0
  ELSE IF cs[a].hash_val < cs[b].hash_val THEN -1
  ELSE IF cs[a].hash_val > cs[b].hash_val THEN 1
  ELSE IF cs[a].zs # cs[b].zs THEN 1 ELSE 0

\* Destroy every handle of a batch, in order (~callback_context).
RECURSIVE DestroyBatch(_, _)
DestroyBatch(cs, batch) ==
  IF batch = <<>> THEN cs
  ELSE DestroyBatch(DestroyState(cs, Head(batch)), Tail(batch))

\* ----------------------------------------------- handles on their own
NoHist == [clones |-> 0, destroys |-> 0, frees |-> 0]

NoRet == [op |-> "none", val |-> 0]

\* new(statepool_.allocate()) tcltl_state(&statepool_, z)
HandleAllocate ==
  /\ pc = "handles"
  /\ FreeCells(cells) \cap (1..MaxHandles) # {}
  /\ \E z \in ZStates :
       LET c == Allocate(cells)
       IN /\ cells' = NewState(cells, c, z)
          /\ hist' = [hist EXCEPT ![c] = NoHist]
  /\ UNCHANGED <<compileVars, alive_prop, dead_prop, zg, pools, cli, held, iters,
                 iter_cache, ret>>

\* h->clone()
HandleClone ==
  /\ pc = "handles"
  /\ \E c \in Cells :
       /\ cells[c].live
       /\ hist[c].clones + 1 < MaxCount
       /\ cells' = CloneState(cells, c)
       /\ hist' = [hist EXCEPT ![c].clones = @ + 1]
  /\ UNCHANGED <<compileVars, alive_prop, dead_prop, zg, pools, cli, held, iters,
                 iter_cache, ret>>

\* h->destroy()
HandleDestroy ==
  /\ pc = "handles"
  /\ \E c \in Cells :
       /\ cells[c].live
       /\ cells' = DestroyState(cells, c)
       /\ hist' = [hist EXCEPT ![c].destroys = @ + 1,
                               ![c].frees = IF cells'[c].live THEN @ ELSE @ + 1]
  /\ UNCHANGED <<compileVars, alive_prop, dead_prop, zg, pools, cli, held, iters,
                 iter_cache, ret>>

\* h->hash()
HandleHash ==
  /\ pc = "handles"
  /\ \E c \in Cells :
       /\ cells[c].live
       /\ ret' = [op |-> "hash", val |-> Hash(cells, c)]
  /\ UNCHANGED <<compileVars, alive_prop, dead_prop, zg, pools, cli, cells, hist, held,
                 iters, iter_cache>>

\* a->compare(b)
HandleCompare ==
  /\ pc = "handles"
  /\ \E a \in Cells, b \in Cells :
       /\ cells[a].live
       /\ cells[b].live
       /\ ret' = [op |-> "compare", val |-> Compare(cells, a, b)]
  /\ UNCHANGED <<compileVars, alive_prop, dead_prop, zg, pools, cli, cells, hist, held,
                 iters, iter_cache>>

\* ------------------------------------------------------------ the adapter
\* A state_condition whose case OP_LE tests val < ref.
EvalRuleLeAsLt(rule, z) ==
  LET st == ZoneStateTable[z]
  IN IF rule.op = "AT"
     THEN st.vloc[rule.var_num + 1] = rule.val
     ELSE LET val == st.ints[rule.var_num + 1]
              ref == rule.val
          IN CASE rule.op = "EQ" -> val = ref
               [] rule.op = "NE" -> val # ref
               [] rule.op = "LT" -> val < ref
               [] rule.op = "GT" -> val > ref
               [] rule.op = "LE" -> val < ref
               [] rule.op = "GE" -> val >= ref
               [] OTHER          -> FALSE

\* Whether rule holds in zone state z (the body of the loop of
\* state_condition).
EvalRule(rule, z) ==
  LET st == ZoneStateTable[z]
  IN IF rule.op = "AT"
     THEN st.vloc[rule.var_num + 1] = rule.val
     ELSE LET val == st.ints[rule.var_num + 1]
              ref == rule.val
          IN CASE rule.op = "EQ" -> val = ref
               [] rule.op = "NE" -> val # ref
               [] rule.op = "LT" -> val < ref
               [] rule.op = "GT" -> val > ref
               [] rule.op = "LE" -> val <= ref
               [] rule.op = "GE" -> val >= ref
               [] OTHER          -> FALSE

\* A state_condition with the two polarities exchanged.
RECURSIVE StateConditionInverted(_, _, _)
StateConditionInverted(z, rules, k) ==
  IF k > Len(rules) THEN BddTrue
  ELSE BddAnd(IF EvalRule(rules[k], z)
              THEN BddNithVar(rules[k].bddvar)
              ELSE BddIthVar(rules[k].bddvar),
              StateConditionInverted(z, rules, k + 1))

\* tcltl_kripke::state_condition, from rule k on.
RECURSIVE StateCondition(_, _, _)
StateCondition(z, rules, k) ==
  IF k > Len(rules) THEN BddTrue
  ELSE BddAnd(IF EvalRule(rules[k], z)
              THEN BddIthVar(rules[k].bddvar)
              ELSE BddNithVar(rules[k].bddvar),
              StateCondition(z, rules, k + 1))

\* The consumer asks for the condition of a state whose zone state is z
\* (kripke::state_condition is public): what it gets is kept in ret.
StateConditionCall ==
  /\ pc = "ready"
  /\ \E z \in ZStates :
       ret' = [op |-> "state_condition",
               val |-> [z |-> z, cond |-> StateCondition(z, ps, 1)]]
  /\ UNCHANGED <<compileVars, alive_prop, dead_prop, zg, pools, cli, cells,
                 hist, held, iters, iter_cache>>

\* The loop of succ_iter: one fresh handle for each outgoing transition.
RECURSIVE AllocBatch(_, _, _)
AllocBatch(cs, outs, batch) ==
  IF outs = <<>> THEN [cells |-> cs, batch |-> batch]
  ELSE LET c == Allocate(cs)
       IN AllocBatch(NewState(cs, c, Head(outs)), Tail(outs), Append(batch, c))

\* A succ_iter with the two branches of its test exchanged.
EdgeConditionSwapped(scond, hasTransitions, alive, deadc) ==
  IF hasTransitions THEN BddAnd(scond, deadc) ELSE BddAnd(scond, alive)

\* The condition of the edges: alive_prop is ANDed in when the zone graph
\* gave transitions, dead_prop when it gave none.
EdgeCondition(scond, hasTransitions, alive, deadc) ==
  IF hasTransitions THEN BddAnd(scond, alive) ELSE BddAnd(scond, deadc)

\* A succ_iter that leaves dead states without a self-loop.
AddsSelfLoopNever(hasTransitions, scond) == FALSE

\* Whether succ_iter adds the self-loop of a dead state.
AddsSelfLoop(hasTransitions, scond) == ~hasTransitions /\ scond # BddFalse

Iters == 1..MaxIters

FreeIter == [st |-> "free", cc |-> <<>>, cond |-> BddFalse, it |-> 0,
             more |-> FALSE, src |-> 0, srcz |-> 0]

HeldTotal == LET RECURSIVE Sum(_)
                 Sum(k) == IF k = 0 THEN 0 ELSE held[k] + Sum(k - 1)
             IN Sum(MaxCells)

\* tcltl_kripke::get_init_state
GetInitState ==
  /\ pc = "ready"
  /\ IF Len(zg.init) = 0
     THEN UNCHANGED <<cells, held, thrown, pc>>
     ELSE /\ FreeCells(cells) # {}
          /\ LET c == Allocate(cells)
             IN /\ cells' = NewState(cells, c, zg.init[1])
                /\ IF Len(zg.init) = 1
                   THEN /\ HeldTotal < MaxHeld
                        /\ held' = [held EXCEPT ![c] = @ + 1]
                        /\ UNCHANGED <<thrown, pc>>
                   ELSE /\ thrown' =
                             [raised |-> TRUE,
                              what |-> <<Msg("multiple_initial_states",
                                             <<>>, <<>>, <<>>)>>]
                        /\ pc' = "aborted"
                        /\ UNCHANGED held
  /\ UNCHANGED <<aps, dead, apIdx, ps, psState, errors, err, dict,
                 alive_prop, dead_prop, zg, pools, cli, hist, iters, iter_cache, ret>>

\* A succ_iter whose recycle adopts the new batch without deleting the old.
SuccIterRecycleKeepsBatch ==
  /\ pc = "ready"
  /\ \E s \in Cells :
       /\ held[s] > 0
       /\ LET z     == cells[s].zs
              outs  == zg.out[z]
              enough == Cardinality(FreeCells(cells)) >= Len(outs)
              ab    == AllocBatch(cells, outs, <<>>)
              has   == ab.batch # <<>>
              scond == EdgeCondition(StateCondition(z, ps, 1), has,
                                     alive_prop, dead_prop)
              loop  == AddsSelfLoop(has, scond)
              cs1   == IF loop THEN CloneState(ab.cells, s) ELSE ab.cells
              batch == IF loop THEN <<s>> ELSE ab.batch
              fresh == { i \in Iters : iters[i].st = "free" }
              made(i) == [st |-> "live", cc |-> batch, cond |-> scond,
                          it |-> 0, more |-> FALSE,
                          src |-> s, srcz |-> z]
          IN /\ enough
             /\ loop => cells[s].count < MaxCount
             /\ IF iter_cache # 0
                THEN /\ cells' = cs1
                     /\ iters' = [iters EXCEPT ![iter_cache] = made(iter_cache)]
                     /\ iter_cache' = 0
                ELSE /\ fresh # {}
                     /\ LET i == CHOOSE j \in fresh : \A k \in fresh : j <= k
                        IN iters' = [iters EXCEPT ![i] = made(i)]
                     /\ cells' = cs1
                     /\ UNCHANGED iter_cache
  /\ UNCHANGED <<compileVars, alive_prop, dead_prop, zg, pools, cli, hist, held, ret>>

\* tcltl_kripke::succ_iter on a handle s the consumer owns
SuccIter ==
  /\ pc = "ready"
  /\ \E s \in Cells :
       /\ held[s] > 0
       /\ LET z     == cells[s].zs
              outs  == zg.out[z]
              enough == Cardinality(FreeCells(cells)) >= Len(outs)
              ab    == AllocBatch(cells, outs, <<>>)
              has   == ab.batch # <<>>
              scond == EdgeCondition(StateCondition(z, ps, 1), has,
                                     alive_prop, dead_prop)
              loop  == AddsSelfLoop(has, scond)
              cs1   == IF loop THEN CloneState(ab.cells, s) ELSE ab.cells
              batch == IF loop THEN <<s>> ELSE ab.batch
              fresh == { i \in Iters : iters[i].st = "free" }
              made(i) == [st |-> "live", cc |-> batch, cond |-> scond,
                          it |-> 0, more |-> FALSE,
                          src |-> s, srcz |-> z]
          IN /\ enough
             /\ loop => cells[s].count < MaxCount
             /\ IF iter_cache # 0
                THEN /\ cells' = DestroyBatch(cs1, iters[iter_cache].cc)
                     /\ iters' = [iters EXCEPT ![iter_cache] = made(iter_cache)]
                     /\ iter_cache' = 0
                ELSE /\ fresh # {}
                     /\ LET i == CHOOSE j \in fresh : \A k \in fresh : j <= k
                        IN iters' = [iters EXCEPT ![i] = made(i)]
                     /\ cells' = cs1
                     /\ UNCHANGED iter_cache
  /\ UNCHANGED <<compileVars, alive_prop, dead_prop, zg, pools, cli, hist, held, ret>>

\* tcltl_succ_iterator::done on iterator record r: whether the cursor is
\* at the end of the batch, it_ == cc_->transitions.end().
Done(r) == r.it > Len(r.cc)

\* A first() that returns whether the batch is empty.
IterFirstInverted ==
  /\ \E i \in Iters :
       /\ iters[i].st = "live"
       /\ iters' = [iters EXCEPT ![i].it = 1, ![i].more = iters[i].cc = <<>>]
  /\ UNCHANGED <<compileVars, alive_prop, dead_prop, zg, pools, cli, cells, hist, held,
                 iter_cache, ret>>

\* tcltl_succ_iterator::first: the cursor goes to the head of the batch.
\* more is what the call returned: whether the cursor is on an entry.
IterFirst ==
  /\ \E i \in Iters :
       /\ iters[i].st = "live"
       /\ iters' = [iters EXCEPT ![i].it = 1, ![i].more = 1 <= Len(iters[i].cc)]
  /\ UNCHANGED <<compileVars, alive_prop, dead_prop, zg, pools, cli, cells, hist, held,
                 iter_cache, ret>>

\* tcltl_succ_iterator::next, called with the cursor on an entry: the
\* cursor moves on, and more is what the call returned.
IterNext ==
  /\ \E i \in Iters :
       /\ iters[i].st = "live"
       /\ ~Done(iters[i])
       /\ iters[i].it >= 1
       /\ iters' = [iters EXCEPT ![i].it = @ + 1,
                                 ![i].more = iters[i].it + 1 <= Len(iters[i].cc)]
  /\ UNCHANGED <<compileVars, alive_prop, dead_prop, zg, pools, cli, cells, hist, held,
                 iter_cache, ret>>

\* A dst that clones the head of the batch, wherever the cursor is.
IterDstHead ==
  /\ \E i \in Iters :
       /\ iters[i].st = "live"
       /\ iters[i].it \in 1..Len(iters[i].cc)
       /\ LET c == iters[i].cc[1]
          IN /\ cells[c].count < MaxCount
             /\ HeldTotal < MaxHeld
             /\ cells' = CloneState(cells, c)
             /\ held' = [held EXCEPT ![c] = @ + 1]
  /\ UNCHANGED <<compileVars, alive_prop, dead_prop, zg, pools, cli, hist, iters,
                 iter_cache, ret>>

\* tcltl_succ_iterator::dst, called with the cursor on an entry: the
\* consumer gets a reference of its own.
IterDst ==
  /\ \E i \in Iters :
       /\ iters[i].st = "live"
       /\ iters[i].it \in 1..Len(iters[i].cc)
       /\ LET c == iters[i].cc[iters[i].it]
          IN /\ cells[c].count < MaxCount
             /\ HeldTotal < MaxHeld
             /\ cells' = CloneState(cells, c)
             /\ held' = [held EXCEPT ![c] = @ + 1]
  /\ UNCHANGED <<compileVars, alive_prop, dead_prop, zg, pools, cli, hist, iters,
                 iter_cache, ret>>

\* twa::release_iter: the iterator becomes the cached one, or is deleted
\* (and with it its callback_context) when there is a cached one already.
ReleaseIter ==
  /\ \E i \in Iters :
       /\ iters[i].st = "live"
       /\ IF iter_cache # 0
          THEN /\ cells' = DestroyBatch(cells, iters[i].cc)
               /\ iters' = [iters EXCEPT ![i] = FreeIter]
               /\ UNCHANGED iter_cache
          ELSE /\ iter_cache' = i
               /\ iters' = [iters EXCEPT ![i].st = "cached", ![i].it = 0,
                                         ![i].more = FALSE]
               /\ UNCHANGED cells
  /\ UNCHANGED <<compileVars, alive_prop, dead_prop, zg, pools, cli, hist, held, ret>>

\* The consumer clones a handle it owns; it may hold one clone more than
\* the MaxHeld references it gets from the adapter.
StateClone ==
  /\ \E c \in Cells :
       /\ held[c] > 0
       /\ cells[c].count < MaxCount
       /\ HeldTotal <= MaxHeld
       /\ cells' = CloneState(cells, c)
       /\ held' = [held EXCEPT ![c] = @ + 1]
  /\ UNCHANGED <<compileVars, alive_prop, dead_prop, zg, pools, cli, hist, iters,
                 iter_cache, ret>>

\* The consumer gives up a reference it owns.
StateDestroy ==
  /\ \E c \in Cells :
       /\ held[c] > 0
       /\ cells' = DestroyState(cells, c)
       /\ held' = [held EXCEPT ![c] = @ - 1]
  /\ UNCHANGED <<compileVars, alive_prop, dead_prop, zg, pools, cli, hist, iters,
                 iter_cache, ret>>

\* ---------------------------------------------------------- ~tcltl_kripke
\* main has not run: the adapter is used by a client of its own.
\* prog is argv[0], argv the words after it; exit_code is the local of
\* main, status what the process returned (-1 while it runs).
NoCli == [prog |-> "", argv |-> <<>>, argc |-> 0, dot |-> FALSE, f |-> "",
          out |-> "", run |-> <<>>, exit_code |-> 0, status |-> -1]

\* A destructor that forgets the cached iterator.
DtorIterCacheKept ==
  /\ pc \in {"ready", "aborted"}
  /\ \A i \in Iters : iters[i].st # "live"
  /\ HeldTotal = 0
  /\ cli = NoCli \/ cli.out # "" \/ pc = "aborted"
  /\ pc' = "dtor_allocator"
  /\ UNCHANGED <<aps, dead, apIdx, ps, psState, errors, err, dict, thrown,
                 adapterVars, pools, cli>>

\* The adapter goes away when its last owner drops it: the consumer has
\* given back its iterators and its handles, or get_init_state threw.
\* if (iter_cache_) { delete iter_cache_; iter_cache_ = nullptr; }
DtorIterCache ==
  /\ pc \in {"ready", "aborted"}
  /\ \A i \in Iters : iters[i].st # "live"
  /\ HeldTotal = 0
  /\ cli = NoCli \/ cli.out # "" \/ pc = "aborted"
  /\ IF iter_cache # 0
     THEN /\ cells' = DestroyBatch(cells, iters[iter_cache].cc)
          /\ iters' = [iters EXCEPT ![iter_cache] = FreeIter]
          /\ iter_cache' = 0
     ELSE UNCHANGED <<cells, iters, iter_cache>>
  /\ pc' = "dtor_allocator"
  /\ UNCHANGED <<aps, dead, apIdx, ps, psState, errors, err, dict, thrown,
                 alive_prop, dead_prop, zg, hist, held, ret, pools, cli>>

\* allocator_.destruct_all(): every zone-graph state of the allocator is
\* destructed, referred to or not.
DtorDestructAll ==
  /\ pc = "dtor_allocator"
  /\ pools' = [pools EXCEPT !.allocator = "destructed"]
  /\ pc' = "dtor_unregister"
  /\ UNCHANGED <<compileData, adapterVars, cli>>

\* dict_->unregister_all_my_variables(ps_);
DtorUnregister ==
  /\ pc = "dtor_unregister"
  /\ dict' = UnregisterAllMyVariables(dict, "ps")
  /\ pc' = "dtor_delete"
  /\ UNCHANGED <<aps, dead, apIdx, ps, psState, errors, err, thrown,
                 adapterVars, pools, cli>>

\* delete ps_;
DtorDeletePs ==
  /\ pc = "dtor_delete"
  /\ psState' = "freed"
  /\ ps' = <<>>
  /\ pc' = "dtor_members"
  /\ UNCHANGED <<aps, dead, apIdx, errors, err, dict, thrown,
                 adapterVars, pools, cli>>

\* The members go after the body of the destructor: statepool_ gives its
\* memory back without destructing the handles still in it.  main goes on
\* where the adapter was dropped.
DtorMembers ==
  /\ pc = "dtor_members"
  /\ pools' = [pools EXCEPT !.statepool = "gone"]
  /\ cells' = [c \in Cells |-> FreeCell]
  /\ pc' = IF cli = NoCli THEN "gone"
           ELSE IF thrown.raised THEN "caught" ELSE "return"
  /\ UNCHANGED <<aps, dead, apIdx, ps, psState, errors, err, dict, thrown,
                 alive_prop, dead_prop, zg, hist, held, iters, iter_cache,
                 ret, cli>>

\* ------------------------------------------------------------------- main

\* The words of the command lines explored: a model file that loads and one
\* that does not, two formulas that parse and one that does not, and -D.
ModelFiles == {"good.tck", "bad.tck"}

FormulaTexts == {"G(p.i)", "G(z.i)", "G(p.i"}

\* tc_model::load(argv[1]) builds the system declaration.
Loads(word) == word = "good.tck"

\* spot::parse_infix_psl(argv[2]) reports no error.
Parses(word) == word \in {"G(p.i)", "G(z.i)"}

\* spot::atomic_prop_collect(f): the propositions of the formula.
AtomicProps(word) ==
  IF word = "G(p.i)" THEN <<TextPool[4]>>
  ELSE IF word = "G(z.i)" THEN <<TextPool[8]>>
  ELSE <<>>

\* The command lines, argv[1] first; argc is one more than their length.
CommandLines ==
  {<<>>, <<"-D">>}
    \cup { <<m>> : m \in ModelFiles }
    \cup { <<m, "-D">> : m \in ModelFiles }
    \cup { <<m, f>> : m \in ModelFiles, f \in FormulaTexts }
    \cup { <<m, f, "-D">> : m \in ModelFiles, f \in FormulaTexts }
    \cup { <<m, f, "-D", "-D">> : m \in ModelFiles, f \in FormulaTexts }

\* The dead formula of m.kripke(gc, &ap, dict): the default argument, which
\* the header declares; each of the three cases of the constructor.
MainDead == DeadFormulas

\* The zone graphs main is run on: those of the adapter, and one whose
\* runs go on for ever without p leaving its location i.
MainGraphs ==
  ZoneGraphs \cup { [init |-> <<1>>, out |-> << <<4>>, <<>>, <<>>, <<4>> >>] }

\* main, from its entry to the try block: the usage test, -D, and the
\* parsing of the formula.
MainArgs ==
  /\ pc = "main"
  /\ LET argc0 == Len(cli.argv) + 1
         dot   == argc0 > 1 /\ cli.argv[argc0 - 1] = "-D"
         argc  == IF dot THEN argc0 - 1 ELSE argc0
     IN IF argc0 < 2 \/ argc0 > 4
        THEN /\ cli' = [cli EXCEPT !.argc = argc0, !.out = "usage",
                                   !.status = 1]
             /\ pc' = "exit"
        ELSE IF argc >= 3 /\ ~Parses(cli.argv[2])
             THEN /\ cli' = [cli EXCEPT !.argc = argc, !.dot = dot,
                                        !.out = "syntax error",
                                        !.status = 1]
                  /\ pc' = "exit"
             ELSE /\ cli' = [cli EXCEPT !.argc = argc, !.dot = dot,
                                        !.f = IF argc >= 3 THEN cli.argv[2]
                                              ELSE ""]
                  /\ pc' = "load"
  /\ UNCHANGED <<compileData, adapterVars, pools>>

\* The head of the try block: tc_model::load, then the translator and the
\* propositions of the formula, or dump_info.
MainLoad ==
  /\ pc = "load"
  /\ IF ~Loads(cli.argv[1])
     THEN /\ thrown' = [raised |-> TRUE,
                        what |-> <<Msg("system_declaration", <<>>, <<>>, <<>>)>>]
          /\ pc' = "caught"
          /\ UNCHANGED <<aps, dict, cli>>
     ELSE IF cli.f # ""
          THEN /\ aps' = AtomicProps(cli.f)
               /\ dict' = RegisterAll(dict, AtomicProps(cli.f), 1, "af")
               /\ pc' = "kripke"
               /\ UNCHANGED <<thrown, cli>>
          ELSE IF cli.dot
               THEN /\ aps' = <<>>
                    /\ pc' = "kripke"
                    /\ UNCHANGED <<dict, thrown, cli>>
               ELSE /\ cli' = [cli EXCEPT !.out = "info"]
                    /\ pc' = "return"
                    /\ UNCHANGED <<aps, dict, thrown>>
  /\ UNCHANGED <<dead, apIdx, ps, psState, errors, err, adapterVars, pools>>

\* The Kripke structure the adapter exposes, over the zone states: the
\* condition succ_iter gives the edges that leave z, and where they go.
KripkeLabel(z) ==
  EdgeCondition(StateCondition(z, ps, 1), zg.out[z] # <<>>,
                alive_prop, dead_prop)

KripkeSucc(z) ==
  IF zg.out[z] # <<>>
  THEN { zg.out[z][k] : k \in 1..Len(zg.out[z]) }
  ELSE IF AddsSelfLoop(FALSE, KripkeLabel(z)) THEN {z} ELSE {}

\* The zone states reached from those of S.
RECURSIVE ReachFrom(_)
ReachFrom(S) ==
  LET N == S \cup UNION { KripkeSucc(z) : z \in S }
  IN IF N = S THEN S ELSE ReachFrom(N)

\* The states of S an infinite run can go through without leaving S.
RECURSIVE Unending(_)
Unending(S) ==
  LET N == { z \in S : KripkeSucc(z) \cap S # {} }
  IN IF N = S THEN S ELSE Unending(N)

\* The automaton of the negation of G(a) takes an edge of condition !a:
\* z can be such an edge's source when its label allows a to be false.
Falsifies(z, a) == BddAnd(KripkeLabel(z), BddNithVar(dict[a].var)) # BddFalse

\* k->intersecting_run(af) for the negation of G(a), from zone state z0:
\* the runs it may return, each given as its states up to the first whose
\* label has a false; none when the intersection is empty.
AcceptingRuns(z0, a) ==
  LET inf == Unending(ReachFrom({z0}))
  IN { r \in UNION { [1..n -> ZStates] : n \in 1..Len(ZoneStateTable) } :
         /\ r[1] = z0
         /\ \A k \in 1..(Len(r) - 1) :
              r[k + 1] \in KripkeSucc(r[k]) /\ ~Falsifies(r[k], a)
         /\ \A j \in 1..Len(r), k \in 1..Len(r) : r[j] = r[k] => j = k
         /\ r[Len(r)] \in inf
         /\ Falsifies(r[Len(r)], a) }

\* The consumer inside main asks for the initial state, once.
MainInitial ==
  /\ cli # NoCli
  /\ cli.out = ""
  /\ HeldTotal = 0
  /\ GetInitState

\* The rest of the try block, with the initial state in hand: the
\* emptiness check of the product and its report, or the dot output of the
\* whole structure; the consumer gives the initial state back.
MainCheck ==
  /\ pc = "ready"
  /\ cli # NoCli
  /\ cli.out = ""
  /\ \E c \in Cells :
       /\ held[c] > 0
       /\ IF cli.f = ""
          THEN cli' = [cli EXCEPT !.out = "dot"]
          ELSE LET runs == AcceptingRuns(cells[c].zs, aps[1])
               IN IF runs = {}
                  THEN cli' = [cli EXCEPT !.out = "formula is verified"]
                  ELSE \E r \in runs :
                         cli' = [cli EXCEPT
                                   !.out = IF cli.dot THEN "dot" ELSE "run",
                                   !.run = r, !.exit_code = 1]
       /\ cells' = DestroyState(cells, c)
       /\ held' = [held EXCEPT ![c] = @ - 1]
  /\ UNCHANGED <<compileVars, alive_prop, dead_prop, zg, hist, iters,
                 iter_cache, ret, pools>>

\* return exit_code;
MainReturn ==
  /\ pc = "return"
  /\ cli' = [cli EXCEPT !.status = cli.exit_code]
  /\ pc' = "exit"
  /\ UNCHANGED <<compileData, adapterVars, pools>>

\* catch (std::exception const & e) { log.error(e.what()); return 2; }
MainCatch ==
  /\ pc \in {"caught", "failed"}
  /\ cli # NoCli
  /\ cli' = [cli EXCEPT !.out = "error", !.status = 2]
  /\ pc' = "exit"
  /\ UNCHANGED <<compileData, adapterVars, pools>>

\* ---------------------------------------------------------- specifications
EmptyGraph == [init |-> <<>>, out |-> << <<>>, <<>>, <<>>, <<>> >>]

\* The adapter before its constructor ran, over zone graph g.
AdapterInit(g) ==
  /\ alive_prop = BddFalse
  /\ dead_prop = BddFalse
  /\ zg = g
  /\ cells = [c \in Cells |-> FreeCell]
  /\ hist = [c \in Cells |-> NoHist]
  /\ held = [c \in Cells |-> 0]
  /\ iters = [i \in Iters |-> FreeIter]
  /\ iter_cache = 0
  /\ ret = NoRet
  /\ pools = [allocator |-> "live", statepool |-> "live"]

\* The batches the adapter is explored with.
AdapterBatches == { <<TextPool[2], TextPool[4]>> }

\* The adapter: convert_aps has returned normally, the constructor is next.
Init ==
  /\ pc = "ctor"
  /\ aps \in AdapterBatches
  /\ dead \in DeadFormulas
  /\ LET st == ConvertAll(ConvState(<<>>, 0, <<>>, EmptyDict), aps, 1, dead)
     IN /\ st.errors = 0
        /\ ps = st.ps
        /\ dict = st.dict
  /\ apIdx = Len(aps) + 1
  /\ psState = "live"
  /\ errors = 0
  /\ err = <<>>
  /\ thrown = NotThrown
  /\ cli = NoCli
  /\ \E g \in ZoneGraphs : AdapterInit(g)

Next ==
  \/ Construct
  \/ KripkeReturn
  \/ GetInitState
  \/ SuccIter
  \/ IterFirst
  \/ IterNext
  \/ IterDst
  \/ ReleaseIter
  \/ StateClone
  \/ StateDestroy
  \/ DtorIterCache
  \/ DtorDestructAll
  \/ DtorUnregister
  \/ DtorDeletePs
  \/ DtorMembers

Spec == Init /\ [][Next]_vars

\* The proposition compiler: tc_model::kripke is about to be called, with
\* one text of AllTexts or with a batch of texts of TextPool.
InitAP ==
  /\ pc = "kripke"
  /\ \/ /\ aps \in { <<t>> : t \in AllTexts }
        /\ dead = DeadTT
        /\ dict = EmptyDict
     \/ /\ aps \in Batches(MaxBatch)
        /\ dead \in DeadFormulas
        /\ dict \in { EmptyDict, RegisterAll(EmptyDict, aps, 1, "af") }
  /\ apIdx = 0
  /\ ps = <<>>
  /\ psState = "none"
  /\ errors = 0
  /\ err = <<>>
  /\ thrown = NotThrown
  /\ cli = NoCli
  /\ AdapterInit(EmptyGraph)

NextAP ==
  \/ KripkeCall
  \/ ConvertAp
  \/ ConvertThrow
  \/ ConvertReturn
  \/ KripkeCatch
  \/ Construct
  \/ KripkeReturn
  \/ StateConditionCall

SpecAP == InitAP /\ [][NextAP]_vars

\* The command-line program: main is about to run on a command line, over
\* the zone graph of the model the file holds.  With no initial state
\* get_init_state returns nullptr, which the emptiness check is not defined
\* for: main gets no further.
InitMain ==
  /\ pc = "main"
  /\ cli \in { [NoCli EXCEPT !.prog = "tcltl", !.argv = line] :
                 line \in CommandLines }
  /\ aps = <<>>
  /\ dead \in MainDead
  /\ dict = EmptyDict
  /\ apIdx = 0
  /\ ps = <<>>
  /\ psState = "none"
  /\ errors = 0
  /\ err = <<>>
  /\ thrown = NotThrown
  /\ \E g \in MainGraphs : AdapterInit(g)

NextMain ==
  \/ MainArgs
  \/ MainLoad
  \/ KripkeCall
  \/ ConvertAp
  \/ ConvertThrow
  \/ ConvertReturn
  \/ KripkeCatch
  \/ Construct
  \/ KripkeReturn
  \/ MainInitial
  \/ MainCheck
  \/ DtorIterCache
  \/ DtorDestructAll
  \/ DtorUnregister
  \/ DtorDeletePs
  \/ DtorMembers
  \/ MainReturn
  \/ MainCatch

SpecMain == InitMain /\ [][NextMain]_vars

\* Handles exercised on their own by a client of tcltl_state.
InitHandle ==
  /\ pc = "handles"
  /\ aps = <<>>
  /\ dead = DeadTT
  /\ dict = EmptyDict
  /\ apIdx = 0
  /\ ps = <<>>
  /\ psState = "none"
  /\ errors = 0
  /\ err = <<>>
  /\ thrown = NotThrown
  /\ cli = NoCli
  /\ AdapterInit(EmptyGraph)

NextHandle ==
  \/ HandleAllocate
  \/ HandleClone
  \/ HandleDestroy
  \/ HandleHash
  \/ HandleCompare

SpecHandle == InitHandle /\ [][NextHandle]_vars

\* ------------------------------------------------- properties: the adapter
\* The iterators that hold a batch (live, or cached until recycled).
HasBatch(i) == iters[i].st # "free"

\* Whether the zone graph gives the source of iterator i any transition.
SourceHasTransitions(i) == zg.out[iters[i].srcz] # <<>>

\* A label includes a condition when every valuation of the label
\* satisfies the condition.
Includes(label, cond) == label \subseteq cond

\* The constructor has run.
Constructed == pc \in {"made", "ready", "aborted"}

\* C1: a state without zone-graph transitions, when dead_prop is not false,
\* has exactly one successor: itself, on an edge labelled with the state's
\* condition ANDed with dead_prop; so the state is no dead end.
C1_DeadStateSelfLoop ==
  \A i \in Iters :
    (HasBatch(i) /\ ~SourceHasTransitions(i) /\ dead_prop # BddFalse) =>
      /\ Len(iters[i].cc) = 1
      /\ iters[i].cc[1] = iters[i].src
      /\ cells[iters[i].src].live
      /\ cells[iters[i].src].zs = iters[i].srcz
      /\ iters[i].cond =
           BddAnd(StateCondition(iters[i].srcz, ps, 1), dead_prop)
      /\ iters[i].cond # BddFalse

\* A dead state was given its self-loop, with a named dead proposition.
C1_Witness ==
  \E i \in Iters :
    /\ iters[i].st = "live"
    /\ ~SourceHasTransitions(i)
    /\ dead.kind = "ap"
    /\ iters[i].cc = <<iters[i].src>>

\* The label of the edges of iterator i includes exactly one of
\* alive_prop and dead_prop: the first when the source has zone-graph
\* transitions, the second when it has none.
ExactlyOneMarker(i) ==
  IF SourceHasTransitions(i)
  THEN /\ Includes(iters[i].cond, alive_prop)
       /\ ~Includes(iters[i].cond, dead_prop)
  ELSE /\ Includes(iters[i].cond, dead_prop)
       /\ ~Includes(iters[i].cond, alive_prop)

\* C2 as claimed: every edge label includes exactly one of alive_prop and
\* dead_prop, whatever the dead formula is.
C2_ExactlyOneAlways ==
  \A i \in Iters : (HasBatch(i) /\ iters[i].cc # <<>>) => ExactlyOneMarker(i)

\* C2: every edge label includes exactly one of alive_prop and dead_prop
\* when the dead formula is false or a named proposition; when it is true
\* both conditions are true and every label includes both.
C2_ExactlyOneUnlessTrue ==
  \A i \in Iters :
    (HasBatch(i) /\ iters[i].cc # <<>>) =>
      IF dead.kind = "tt"
      THEN /\ Includes(iters[i].cond, alive_prop)
           /\ Includes(iters[i].cond, dead_prop)
      ELSE ExactlyOneMarker(i)

\* With a named dead proposition, the iterator of a dead state, whose one
\* edge is the self-loop.
C2_Witness ==
  \E i \in Iters :
    /\ dead.kind = "ap"
    /\ iters[i].st = "live" /\ iters[i].cc # <<>> /\ ~SourceHasTransitions(i)

\* C3 as claimed: the pair the constructor computes is never both true and
\* never both false.
C3_NeverBothNeverNone ==
  Constructed =>
    /\ ~(alive_prop = BddTrue /\ dead_prop = BddTrue)
    /\ ~(alive_prop = BddFalse /\ dead_prop = BddFalse)

\* C3: the pair the constructor computes is never both false; it is both
\* true exactly when the dead formula is true; for false it is (true,
\* false) and for a proposition P it is (not P, P).
C3_AliveDeadPair ==
  Constructed =>
    /\ ~(alive_prop = BddFalse /\ dead_prop = BddFalse)
    /\ (alive_prop = BddTrue /\ dead_prop = BddTrue) <=> dead.kind = "tt"
    /\ dead.kind = "ff" => (alive_prop = BddTrue /\ dead_prop = BddFalse)
    /\ dead.kind = "ap" =>
         /\ dead.name \in OwnedBy(dict, "kripke")
         /\ dead_prop = BddIthVar(dict[dead.name].var)
         /\ alive_prop = Valuations \ dead_prop

\* The constructor ran with the dead formula true.
C3_Witness ==
  /\ pc = "ready"
  /\ dead.kind = "tt"
  /\ alive_prop = BddTrue
  /\ dead_prop = BddTrue

\* ------------------------------------------------- properties: the handles
LiveCells == { c \in Cells : cells[c].live }

\* C4: a handle allocated with count 1 and cloned k times is valid through
\* exactly 1 + k calls of destroy: while fewer were made its count is
\* 1 + k minus their number, which is positive, and it still wraps its
\* state; its cell is reclaimed, once, and the state reference dropped by
\* the call that makes them 1 + k.
C4_ValidThroughReleases ==
  \A c \in Cells :
    IF cells[c].live
    THEN /\ hist[c].destroys < 1 + hist[c].clones
         /\ cells[c].count = 1 + hist[c].clones - hist[c].destroys
         /\ cells[c].count > 0
         /\ cells[c].zs \in ZStates
         /\ hist[c].frees = 0
    ELSE /\ cells[c] = FreeCell
         /\ \/ hist[c] = NoHist
            \/ /\ hist[c].destroys = 1 + hist[c].clones
               /\ hist[c].frees = 1

\* A handle cloned at least once was reclaimed by its last destroy.
C4_Witness ==
  \E c \in Cells :
    /\ ~cells[c].live
    /\ hist[c].clones >= 1
    /\ hist[c].destroys = 1 + hist[c].clones
    /\ hist[c].frees = 1

\* C5: hash() of a handle is the same at every call during its lifetime,
\* whatever was called in between, and two handles of structurally equal
\* states have the same hash.
C5_HashStable ==
  /\ [](\A a \in LiveCells, b \in LiveCells :
          cells[a].zs = cells[b].zs => Hash(cells, a) = Hash(cells, b))
  /\ [][\A c \in Cells :
          (cells[c].live /\ cells'[c].live) =>
            Hash(cells', c) = Hash(cells, c)]_vars

\* hash() was called while two handles wrap structurally equal states, one
\* of them cloned.
C5_Witness ==
  /\ ret.op = "hash"
  /\ \E a \in LiveCells, b \in LiveCells :
       /\ a # b
       /\ cells[a].zs = cells[b].zs
       /\ cells[a].count > 1

\* The sign of an integer.
Sign(n) == IF n < 0 THEN -1 ELSE IF n > 0 THEN 1 ELSE 0

\* Two distinct handles with the same cached hash and unequal states.
Collide(a, b) ==
  /\ a # b
  /\ cells[a].hash_val = cells[b].hash_val
  /\ cells[a].zs # cells[b].zs

\* C6: compare(a, b) is 0 for the same handle; else negative or positive as
\* the hash of a is smaller or greater than the hash of b; else 0 when the
\* states are structurally equal and 1 when not.  So it is 0 exactly when
\* a and b wrap structurally equal states.
C6_CompareContract ==
  \A a \in LiveCells, b \in LiveCells :
    LET r == Compare(cells, a, b)
    IN /\ a = b => r = 0
       /\ (a # b /\ Hash(cells, a) < Hash(cells, b)) => r < 0
       /\ (a # b /\ Hash(cells, a) > Hash(cells, b)) => r > 0
       /\ (a # b /\ Hash(cells, a) = Hash(cells, b)) =>
            r = (IF cells[a].zs = cells[b].zs THEN 0 ELSE 1)
       /\ r = 0 <=> cells[a].zs = cells[b].zs

\* compare returned 0 for two distinct handles of structurally equal states.
C6_Witness ==
  /\ ret.op = "compare"
  /\ ret.val = 0
  /\ \E a \in LiveCells, b \in LiveCells :
       a # b /\ cells[a].zs = cells[b].zs /\ Cardinality(LiveCells) = 2

\* C7: compare is no total order: for two distinct handles with equal
\* hashes and unequal states it returns 1 both ways, so both are greater
\* than the other although neither is greater than itself; for every other
\* pair the two results have opposite signs or are both 0.
C7_CompareNotAntisymmetric ==
  \A a \in LiveCells, b \in LiveCells :
    IF Collide(a, b)
    THEN /\ Compare(cells, a, b) = 1
         /\ Compare(cells, b, a) = 1
         /\ ~(Compare(cells, a, a) > 0)
    ELSE Sign(Compare(cells, a, b)) = -Sign(Compare(cells, b, a))

\* compare returned 1 with two colliding handles alive.
C7_Witness ==
  /\ ret.op = "compare"
  /\ ret.val = 1
  /\ Cardinality(LiveCells) = 2
  /\ \E a \in LiveCells, b \in LiveCells : Collide(a, b)

\* ------------------------------------------------ properties: the compiler
\* The propositions of the batch convert_aps has gone through, the dead
\* one apart, while their registrations are still in the dictionary.
Processed ==
  IF pc \in {"convert", "catch", "ctor", "made", "ready"}
  THEN { k \in 1..Len(aps) : k < apIdx /\ ~IsDead(aps[k], dead) }
  ELSE {}

\* Text t was compiled: the list registered it.
Compiled(t) == t \in OwnedBy(dict, "ps")

\* The rule compiled from text t is (subject, op, operand).
RuleIs(t, subject, op, operand) ==
  \E j \in 1..Len(ps) :
    /\ ps[j].bddvar = dict[t].var
    /\ ps[j].var_num = subject
    /\ ps[j].op = op
    /\ ps[j].val = operand

\* No blank and no comparator character in t.
Plain(t) == \A j \in 1..Len(t) : ~IsBlank(t[j]) /\ ~IsCmpChar(t[j])

\* The place of the last '.' of t, 0 when it has none.
LastDotOf(t) ==
  IF \E j \in 1..Len(t) : t[j] = "."
  THEN CHOOSE j \in 1..Len(t) :
         t[j] = "." /\ \A k \in (j + 1)..Len(t) : t[k] # "."
  ELSE 0

\* The six comparators as written, with the operator each stands for.
Comparators ==
  { [text |-> <<"=", "=">>, op |-> "EQ"], [text |-> <<"!", "=">>, op |-> "NE"],
    [text |-> <<"<">>, op |-> "LT"],      [text |-> <<">">>, op |-> "GT"],
    [text |-> <<"<", "=">>, op |-> "LE"], [text |-> <<">", "=">>, op |-> "GE"] }

AllDigits(d) == d # <<>> /\ \A j \in 1..Len(d) : IsDigit(d[j])

\* The decimal digits of a natural number.
RECURSIVE DigitsOf(_)
DigitsOf(n) ==
  IF n < 10 THEN <<Digits[n + 1]>>
  ELSE Append(DigitsOf(n \div 10), Digits[(n % 10) + 1])

\* A run of digits without its leading zeros, the last digit apart.
RECURSIVE StripZeros(_)
StripZeros(d) ==
  IF Len(d) > 1 /\ Head(d) = "0" THEN StripZeros(Tail(d)) ELSE d

\* The run of digits d writes the integer v.
Writes(d, v) == v >= 0 /\ DigitsOf(v) = StripZeros(d)

\* The rule compiled from text t.
RuleOf(t) == ps[CHOOSE j \in 1..Len(ps) : ps[j].bddvar = dict[t].var]

\* "V": a variable name alone is V != 0.
VariableAlone(t) ==
  VarKey(t) >= 0 => (Compiled(t) /\ RuleIs(t, VarKey(t), "NE", 0))

\* "V==3" and the like: a variable name, a comparator and an integer whose
\* digits are in scope.
ComparedAs(t, InScope(_)) ==
  \A i \in 1..Len(t), c \in Comparators :
    LET n == SubSeq(t, 1, i)
        o == SubSeq(t, i + 1, i + Len(c.text))
        d == SubSeq(t, i + Len(c.text) + 1, Len(t))
    IN (/\ i + Len(c.text) < Len(t)
        /\ VarKey(n) >= 0 /\ o = c.text /\ AllDigits(d) /\ InScope(d)) =>
         /\ Compiled(t)
         /\ RuleOf(t).var_num = VarKey(n)
         /\ RuleOf(t).op = c.op
         /\ Writes(d, RuleOf(t).val)

VariableCompared(t) == ComparedAs(t, LAMBDA d : TRUE)

\* Nine digits at most: every such number is an int.
VariableComparedWithinInt(t) ==
  ComparedAs(t, LAMBDA d : Len(StripZeros(d)) <= 9)

\* Message m names process P and location L of proposition t.
NamesBoth(m, t, P, L) ==
  \/ m.kind = "no_location" /\ m.a = L /\ m.b = P
  \/ m.kind = "no_var_or_proc" /\ m.a = P /\ m.str = t

\* "P.L", no variable name: an AT-LOCATION rule exactly when P is a
\* process and L one of its locations, else a diagnostic naming both.
LocationForm(t) ==
  (Plain(t) /\ VarKey(t) < 0 /\ LastDotOf(t) > 0) =>
    LET P == SubSeq(t, 1, LastDotOf(t) - 1)
        L == SubSeq(t, LastDotOf(t) + 1, Len(t))
        known == ProcKey(P) >= 0 /\ LocKey(P, L) >= 0
    IN /\ Compiled(t) <=> known
       /\ known => RuleIs(t, ProcKey(P), "AT", LocKey(P, L))
       /\ ~known => \E j \in 1..Len(err) : NamesBoth(err[j], t, P, L)

\* t with its blanks taken out.
Squeeze(t) == SelectSeq(t, LAMBDA c : ~IsBlank(c))

\* A location with text left after it is an error: blanks apart, the text
\* after a location name starts at the first comparator character.
LocationThenMore(t) ==
  \A i \in 1..(Len(t) - 1) :
    LET n == Squeeze(SubSeq(t, 1, i))
        P == SubSeq(n, 1, LastDotOf(n) - 1)
        L == SubSeq(n, LastDotOf(n) + 1, Len(n))
    IN (/\ \A j \in 1..i : ~IsCmpChar(t[j])
        /\ VarKey(n) < 0 /\ LastDotOf(n) > 0
        /\ ProcKey(P) >= 0 /\ LocKey(P, L) >= 0
        /\ IsCmpChar(t[i + 1])) =>
         /\ ~Compiled(t)
         /\ \E j \in 1..Len(err) : err[j].kind = "trailing" /\ err[j].str = t

\* C8: "V" compiles to (V, NE, 0); "V==3" to (V, EQ, 3), and so for the
\* other five comparators; "P.L", no variable name, to an AT-LOCATION rule
\* (process id, location id) exactly when P is a process and L one of its
\* locations, and else fails with a diagnostic naming P and L; a location
\* followed by a comparator is an error.
C8_PropositionForms ==
  \A k \in Processed :
    /\ VariableAlone(aps[k])
    /\ VariableCompared(aps[k])
    /\ LocationForm(aps[k])
    /\ LocationThenMore(aps[k])

\* C8 for the integers of at most nine digits: the other forms as in C8.
C8_FormsWithinInt ==
  \A k \in Processed :
    /\ VariableAlone(aps[k])
    /\ VariableComparedWithinInt(aps[k])
    /\ LocationForm(aps[k])
    /\ LocationThenMore(aps[k])

\* The batch "x==3", "p.i" was compiled to (x, EQ, 3) and (p, AT, i).
C8_Witness ==
  /\ pc = "ready"
  /\ aps = <<TextPool[2], TextPool[4]>>
  /\ ps = << [var_num |-> 0, op |-> "EQ", val |-> 3, bddvar |-> 0],
             [var_num |-> 0, op |-> "AT", val |-> 0, bddvar |-> 1] >>

\* The propositions of the batch that do not compile.
Failing ==
  { k \in 1..Len(aps) : ~IsDead(aps[k], dead) /\ ~ParseProp(aps[k]).ok }

\* The messages of the failing propositions from proposition k on, in order.
RECURSIVE FailingMessages(_)
FailingMessages(k) ==
  IF k > Len(aps) THEN <<>>
  ELSE IF k \in Failing
       THEN <<ParseProp(aps[k]).msg>> \o FailingMessages(k + 1)
       ELSE FailingMessages(k + 1)

\* C9: when k >= 1 propositions of a batch fail, every proposition is gone
\* through, the compilation fails with one error of exactly k messages, one
\* for each failing proposition, and the list registers no variable for a
\* failing proposition.
C9_AggregatedFailure ==
  /\ \A k \in Failing :
       /\ aps[k] \notin OwnedBy(dict, "ps")
       /\ aps[k] \in DOMAIN dict => dict[aps[k]].owners = {"af"}
  /\ pc = "catch" =>
       /\ Failing # {}
       /\ apIdx = Len(aps) + 1
       /\ errors = Cardinality(Failing)
       /\ Len(err) = Cardinality(Failing)
       /\ err = FailingMessages(1)
       /\ Len(ps) + Len(err) = Cardinality({ k \in 1..Len(aps) : ~IsDead(aps[k], dead) })
  /\ pc = "failed" =>
       /\ thrown.raised
       /\ thrown.what = FailingMessages(1)
  /\ (Failing # {} /\ pc \notin {"kripke", "convert"}) =>
       pc \in {"catch", "failed"}

\* The first proposition of a batch of two failed and the second compiled.
C9_Witness ==
  /\ pc = "catch"
  /\ Len(aps) = 2
  /\ Failing = {1}
  /\ Len(ps) = 1
  /\ Len(err) = 1

\* C10: when the compilation fails the batch is rejected as a whole: the
\* caller gets the error, no adapter is built, the list is freed, the
\* dictionary holds no registration of the list, and the registrations of
\* the other owners are what they were.
C10_BatchRejected ==
  /\ [](pc = "failed" =>
          /\ thrown.raised
          /\ psState = "freed"
          /\ ps = <<>>
          /\ OwnedBy(dict, "ps") = {}
          /\ OwnedBy(dict, "kripke") = {}
          /\ DOMAIN dict = OwnedBy(dict, "af")
          /\ alive_prop = BddFalse /\ dead_prop = BddFalse)
  /\ [][/\ OwnedBy(dict', "af") = OwnedBy(dict, "af")
        /\ \A f \in OwnedBy(dict, "af") : dict'[f].var = dict[f].var
        /\ pc = "failed" => pc' = "failed"]_vars

\* A batch failed after one of its propositions had been registered, in a
\* dictionary where another owner holds registrations.
C10_Witness ==
  /\ pc = "failed"
  /\ OwnedBy(dict, "af") # {}
  /\ \E k \in 1..Len(aps) : ~IsDead(aps[k], dead) /\ ParseProp(aps[k]).ok

\* --------------------------------------- properties: the adapter's handles
\* How many times cell c occurs in sequence q.
RECURSIVE Occurrences(_, _)
Occurrences(q, c) ==
  IF q = <<>> THEN 0
  ELSE (IF Head(q) = c THEN 1 ELSE 0) + Occurrences(Tail(q), c)

\* The references to cell c the batches of the iterators own.
RECURSIVE BatchRefs(_, _)
BatchRefs(c, i) ==
  IF i = 0 THEN 0
  ELSE (IF HasBatch(i) THEN Occurrences(iters[i].cc, c) ELSE 0)
       + BatchRefs(c, i - 1)

\* A live handle that neither the consumer nor a batch refers to.
Leaked(c) == cells[c].live /\ held[c] = 0 /\ BatchRefs(c, MaxIters) = 0

\* The step is a get_init_state that threw.
InitialThrew == pc = "ready" /\ pc' = "aborted"

\* The step is a get_init_state that returned the handle in cell c.
InitialReturned(c) ==
  ~cells[c].live /\ cells'[c].live /\ held'[c] = held[c] + 1

\* C11: when the builder yields more than one initial state get_init_state
\* fails, returns no handle, and the handle made for the first initial
\* state has been released when the error leaves the call: the pool is as
\* it was before the call.  With one initial state it returns one handle
\* of count 1 that wraps that state.
C11_InitialReleasesOnError ==
  [][ /\ InitialThrew =>
          /\ Len(zg.init) > 1
          /\ thrown'.raised
          /\ held' = held
          /\ cells' = cells
          /\ \A c \in Cells : ~Leaked(c)'
      /\ \A c \in Cells :
           InitialReturned(c) =>
             /\ Len(zg.init) = 1
             /\ cells'[c].count = 1
             /\ cells'[c].zs = zg.init[1]]_vars

\* get_init_state threw and the handle of the first initial state is still
\* in the pool, with count 1 and no owner.
C11_Witness ==
  /\ pc = "aborted"
  /\ thrown.raised
  /\ \E c \in Cells : Leaked(c) /\ cells[c].count = 1 /\ cells[c].zs = zg.init[1]

\* ------------------------------------------------------- properties: main
\* main has ended.
Exited == pc = "exit"

\* main reported an error: the formula did not parse, or the try block
\* caught an exception (the model does not load, a proposition does not
\* compile, the model has several initial states).
ReportedError == cli.out \in {"syntax error", "error"}

\* C12: every reported error makes the program exit with 2; it exits with
\* 1 only when the formula is violated, and with 0 only when it is
\* verified, or when no check is asked for and no error occurs.
C12_ExitStatus ==
  Exited =>
    /\ ReportedError => cli.status = 2
    /\ cli.status = 1 => (cli.f # "" /\ cli.run # <<>>)
    /\ cli.status = 0 =>
         \/ cli.out = "formula is verified"
         \/ cli.f = "" /\ ~ReportedError

\* main ended with 1 on a formula that does not parse.
C12_Witness ==
  /\ Exited
  /\ cli.out = "syntax error"
  /\ cli.status = 1
  /\ cli.argv = <<"good.tck", "G(p.i">>

\* Process p of zone state z is at its location i, the idle one.
PAtIdle(z) ==
  ZoneStateTable[z].vloc[ProcKey(<<"p">>) + 1] = LocKey(<<"p">>, <<"i">>)

\* The structure the adapter is to expose: the transitions of the zone
\* graph, and a self-loop on a state without any unless the dead formula is
\* false.
ExposedSucc(z) ==
  IF zg.out[z] # <<>> THEN { zg.out[z][k] : k \in 1..Len(zg.out[z]) }
  ELSE IF dead.kind # "ff" THEN {z} ELSE {}

RECURSIVE ExposedReach(_)
ExposedReach(S) ==
  LET N == S \cup UNION { ExposedSucc(z) : z \in S }
  IN IF N = S THEN S ELSE ExposedReach(N)

RECURSIVE ExposedUnending(_)
ExposedUnending(S) ==
  LET N == { z \in S : ExposedSucc(z) \cap S # {} }
  IN IF N = S THEN S ELSE ExposedUnending(N)

\* The states on the runs of the exposed structure from its initial state.
RunStates == ExposedUnending(ExposedReach({zg.init[1]}))

\* main has checked G(p.i) and said what it found.
CheckedGpi ==
  /\ Exited
  /\ cli.f = "G(p.i)"
  /\ cli.out \in {"formula is verified", "run", "dot"}

\* C13: on the model with the processes p and q and the formula G(p.i),
\* main reports "formula is verified" when no run of the exposed structure
\* (the self-loops of the dead states included) has p leave its location i,
\* and otherwise reports a run that holds a transition on which p leaves i.
C13_EndToEnd ==
  CheckedGpi =>
    IF \A z \in RunStates : PAtIdle(z)
    THEN cli.out = "formula is verified" /\ cli.run = <<>>
    ELSE /\ cli.out = IF cli.dot THEN "dot" ELSE "run"
         /\ cli.status = 1
         /\ cli.run[1] = zg.init[1]
         /\ \E k \in 1..(Len(cli.run) - 1) :
              /\ PAtIdle(cli.run[k])
              /\ ~PAtIdle(cli.run[k + 1])
              /\ cli.run[k + 1] \in ExposedSucc(cli.run[k])

\* A run is reported whose last step is the self-loop-bearing dead state 2
\* entered from the idle initial state.
C13_Witness ==
  /\ CheckedGpi
  /\ cli.out = "run"
  /\ cli.run = <<1, 2>>
  /\ zg.out[2] = <<>>
  /\ dead.kind = "tt"

\* ---------------------------------------------------- properties: teardown
\* The propositions whose variable the PropositionList holds.
PsIds == OwnedBy(dict, "ps")

\* The steps of the teardown, each told by what it changes.
CacheDestroyed == pc \in {"ready", "aborted"} /\ pc' = "dtor_allocator"
StatesReleased == pools.allocator = "live" /\ pools'.allocator = "destructed"
IdsUnregistered == PsIds # PsIds'
ListFreed == psState = "live" /\ psState' = "freed"
PoolTornDown == pools.statepool = "live" /\ pools'.statepool = "gone"

\* No iterator is left, cached or not, and no batch refers to a cell.
NoIteratorLeft ==
  /\ iter_cache = 0
  /\ \A i \in Iters : iters[i] = FreeIter
  /\ \A c \in Cells : BatchRefs(c, MaxIters) = 0

\* C14: the teardown of the adapter destroys the cached iterator, if any,
\* and with it gives back one reference for each handle of its batch; then
\* releases the pooled states still outstanding; then unregisters the
\* variables of the PropositionList; then frees the list.  Each step happens
\* once and finds the earlier ones done and the later ones not: the cached
\* iterator is gone before the state pool is, and no variable of the list
\* leaves the dictionary before the teardown.
C14_TeardownOrder ==
  [][ /\ CacheDestroyed =>
          /\ pools.allocator = "live" /\ pools'.allocator = "live"
          /\ NoIteratorLeft'
          /\ \A c \in Cells :
               LET n == cells[c].count - BatchRefs(c, MaxIters)
               IN IF cells[c].live /\ n > 0
                  THEN cells'[c] = [cells[c] EXCEPT !.count = n]
                  ELSE cells'[c] = FreeCell
      /\ StatesReleased =>
          /\ NoIteratorLeft
          /\ PsIds' = PsIds
          /\ PsIds # {}
          /\ psState' = "live"
      /\ IdsUnregistered =>
          /\ pools.allocator = "destructed"
          /\ PsIds' = {}
          /\ psState' = "live"
          /\ pools'.statepool = "live"
      /\ ListFreed =>
          /\ pools.allocator = "destructed"
          /\ PsIds = {}
          /\ pools'.statepool = "live"
      /\ PoolTornDown => NoIteratorLeft /\ psState = "freed"
      /\ pools.allocator = "destructed" => pools'.allocator = "destructed"
      /\ PsIds = {} => PsIds' = {}
      /\ psState = "freed" => psState' = "freed"
      /\ pools.statepool = "gone" => pools'.statepool = "gone"]_vars

\* The teardown of an adapter that was explored has run to its end: the
\* dictionary keeps the propositions for their other owner only.
C14_Witness ==
  /\ pc = "gone"
  /\ ~thrown.raised
  /\ zg.init = <<1>>
  /\ pools = [allocator |-> "destructed", statepool |-> "gone"]
  /\ psState = "freed"
  /\ PsIds = {}
  /\ OwnedBy(dict, "kripke") # {}

\* --------------------------------------------- properties: state_condition
\* The signs of val - ref with which the comparator op is satisfied.
SignsOf(op) ==
  CASE op = "EQ" -> {0}
    [] op = "NE" -> {-1, 1}
    [] op = "LT" -> {-1}
    [] op = "GT" -> {1}
    [] op = "LE" -> {-1, 0}
    [] op = "GE" -> {0, 1}
    [] OTHER     -> {}

\* Rule r holds where the locations are vloc and the integers are ints.
RuleHolds(r, vloc, ints) ==
  IF r.op = "AT" THEN vloc[r.var_num + 1] = r.val
  ELSE Sign(ints[r.var_num + 1] - r.val) \in SignsOf(r.op)

\* C15: state_condition(state) is the conjunction, over every rule of the
\* PropositionList, of the rule's variable, positive when the rule holds
\* in the state and negative when it does not; a rule AT holds when the
\* process is at the stored location, any other when the variable compares
\* as the stored comparator says with the stored operand.  Each rule's
\* variable is so given one value, the other variables none, and the
\* result is told by the locations and the integers of the state alone.
C15_StateCondition ==
  ret.op = "state_condition" =>
    LET st   == ZoneStateTable[ret.val.z]
        cond == ret.val.cond
    IN /\ cond = { a \in Valuations :
                     \A k \in 1..Len(ps) :
                       (ps[k].bddvar \in a) <=> RuleHolds(ps[k], st.vloc, st.ints) }
       /\ cond # BddFalse
       /\ \A j \in 1..Len(ps), k \in 1..Len(ps) :
            ps[j].bddvar = ps[k].bddvar => j = k
       /\ \A v \in BddVars :
            (\A k \in 1..Len(ps) : ps[k].bddvar # v) =>
              \A a \in cond : (a \cup {v}) \in cond /\ (a \ {v}) \in cond

\* The condition of a state where x is 3, under the rule of "x<=3".
C15_Witness ==
  /\ ret.op = "state_condition"
  /\ Len(ps) = 1
  /\ ps[1].op = "LE" /\ ps[1].val = 3
  /\ ZoneStateTable[ret.val.z].ints[ps[1].var_num + 1] = 3
  /\ ret.val.cond = BddIthVar(ps[1].bddvar)

\* ------------------------------------------------ properties: the batches
\* The reference count of cell c, 0 when the cell holds no handle.
CountOf(c) == IF cells[c].live THEN cells[c].count ELSE 0

\* C16: an iterator owns its batch alone.  Recycling it gives back one
\* reference for each handle of the batch it had, and so does destroying it
\* for the batch it has; a handle of a batch loses no reference in any other
\* way, and none twice.  So, while the adapter is in use, the count of every
\* handle is the number of the references the consumer holds and of the
\* entries the batches of the iterators have for it, and a cell that has
\* neither holds no handle; and once the teardown has destroyed the cached
\* iterator no handle that was in a batch is left.
C16_BatchOwnership ==
  /\ pc = "ready" =>
       \A c \in Cells : CountOf(c) = held[c] + BatchRefs(c, MaxIters)
  /\ pc \in {"dtor_allocator", "dtor_unregister", "dtor_delete",
              "dtor_members"} =>
       \A c \in Cells :
         /\ BatchRefs(c, MaxIters) = 0
         /\ cells[c].live =>
              thrown.raised /\ cells[c].count = 1 /\ cells[c].zs = zg.init[1]

\* A cached iterator keeps its batch: a handle of it lives on the one
\* reference the batch has, the consumer holding none.
C16_Witness ==
  /\ pc = "ready"
  /\ iter_cache # 0
  /\ \E c \in Cells :
       /\ Occurrences(iters[iter_cache].cc, c) = 1
       /\ held[c] = 0
       /\ cells[c].live /\ cells[c].count = 1

\* ------------------------------------------------ properties: iteration
\* first() was the last call on iterator i, or the next() calls after it.
Started(i) == iters[i].st = "live" /\ iters[i].it >= 1

\* C17: when the dead formula is false, alive_prop is true and dead_prop
\* is false, and a state without zone-graph transitions has no successor:
\* its iterator has an empty batch, without a self-loop, and first()
\* returns false on it.
C17_DeadEndWhenFalse ==
  (dead.kind = "ff" /\ Constructed) =>
    /\ alive_prop = BddTrue
    /\ dead_prop = BddFalse
    /\ \A i \in Iters :
         (HasBatch(i) /\ ~SourceHasTransitions(i)) =>
           /\ iters[i].cc = <<>>
           /\ iters[i].cond = BddFalse
           /\ Started(i) => ~iters[i].more /\ Done(iters[i])

\* first() was called on the iterator of a dead state, the dead formula
\* being false.
C17_Witness ==
  \E i \in Iters :
    /\ dead.kind = "ff"
    /\ Started(i)
    /\ ~SourceHasTransitions(i)
    /\ iters[i].it = 1
    /\ ~iters[i].more

\* --------------------------------------------------- properties: blanks
\* Text t without its character j.
Without(t, j) == SubSeq(t, 1, j - 1) \o SubSeq(t, j + 1, Len(t))

\* The place of the first comparator character of t, 0 when it has none.
FirstCmp(t) ==
  IF \E j \in 1..Len(t) : IsCmpChar(t[j])
  THEN CHOOSE j \in 1..Len(t) :
         IsCmpChar(t[j]) /\ \A k \in 1..(j - 1) : ~IsCmpChar(t[k])
  ELSE 0

\* The places of the nearest characters of t before and after place j that
\* are no blanks, 0 when there is none.
Before(t, j) ==
  IF \E i \in 1..(j - 1) : ~IsBlank(t[i])
  THEN CHOOSE i \in 1..(j - 1) :
         ~IsBlank(t[i]) /\ \A k \in (i + 1)..(j - 1) : IsBlank(t[k])
  ELSE 0

After(t, j) ==
  IF \E i \in (j + 1)..Len(t) : ~IsBlank(t[i])
  THEN CHOOSE i \in (j + 1)..Len(t) :
         ~IsBlank(t[i]) /\ \A k \in (j + 1)..(i - 1) : IsBlank(t[k])
  ELSE 0

\* The blank at place j of t stands between the two characters of a
\* comparator, or inside the integer: after its sign or between two digits.
InnerBlank(t, j) ==
  LET c == FirstCmp(t)
      b == Before(t, j)
      a == After(t, j)
  IN /\ c > 0 /\ b > 0 /\ a > 0
     /\ \/ b = c /\ t[a] = "="
        \/ b > c /\ (IsDigit(t[b]) \/ t[b] \in {"-", "+"}) /\ IsDigit(t[a])

\* t has a blank between the characters of its comparator or in its integer.
HasInnerBlank(t) == \E j \in 1..Len(t) : IsBlank(t[j]) /\ InnerBlank(t, j)

\* What the compiler made of the processed text t is what it makes of u:
\* the same rule, or a failure for both.
SameOutcome(t, u) ==
  LET r == ParseProp(u)
  IN /\ Compiled(t) <=> r.ok
     /\ Compiled(t) => RuleIs(t, r.var_num, r.op, r.val)

\* The processed texts t and u of one batch had the same outcome.
SameInBatch(t, u) ==
  /\ Compiled(t) <=> Compiled(u)
  /\ Compiled(t) =>
       /\ RuleOf(t).var_num = RuleOf(u).var_num
       /\ RuleOf(t).op = RuleOf(u).op
       /\ RuleOf(t).val = RuleOf(u).val

\* C18 as claimed: blanks are ignored wherever they stand, so a text
\* compiles as the text with one of its blanks taken out does, and two
\* texts of a batch that are the same but for blanks compile to the same
\* rule or both fail.
C18_BlanksIgnoredAnywhere ==
  /\ \A k \in Processed :
       \A j \in 1..Len(aps[k]) :
         IsBlank(aps[k][j]) => SameOutcome(aps[k], Without(aps[k], j))
  /\ \A k \in Processed, l \in Processed :
       Squeeze(aps[k]) = Squeeze(aps[l]) => SameInBatch(aps[k], aps[l])

\* C18: blanks before or inside NAME, between NAME and the comparator,
\* between the comparator and INTEGER and after INTEGER are ignored: a
\* text compiles as the text with one such blank taken out does, and two
\* texts of a batch that are the same but for such blanks compile to the
\* same rule or both fail.  It is so for every blank but one between the
\* two characters of a comparator or inside INTEGER.
C18_BlanksIgnoredBetweenTokens ==
  /\ \A k \in Processed :
       \A j \in 1..Len(aps[k]) :
         (IsBlank(aps[k][j]) /\ ~InnerBlank(aps[k], j)) =>
           SameOutcome(aps[k], Without(aps[k], j))
  /\ \A k \in Processed, l \in Processed :
       (/\ Squeeze(aps[k]) = Squeeze(aps[l])
        /\ ~HasInnerBlank(aps[k]) /\ ~HasInnerBlank(aps[l])) =>
         SameInBatch(aps[k], aps[l])

\* "x==3" and " x == 3 " were compiled in one batch, both to (x, EQ, 3).
C18_Witness ==
  /\ pc = "ready"
  /\ aps = <<TextPool[2], TextPool[18]>>
  /\ Compiled(TextPool[2]) /\ Compiled(TextPool[18])
  /\ RuleIs(TextPool[2], 0, "EQ", 3)
  /\ RuleIs(TextPool[18], 0, "EQ", 3)

\* ------------------------------------------- properties: the cached hash
\* The size_t that hash() returns for cell c: hash_val_, an unsigned,
\* widened.
HashReturned(c) == [hi |-> 0, lo |-> Hash(cells, c)]

\* C19: the hash a handle caches when it is allocated, and hash() returns,
\* is hash_value of the state it wraps, whatever that value is in the
\* width of size_t: nothing of it is cut when it is stored in the handle.
C19_HashExact ==
  \A c \in LiveCells : HashReturned(c) = HashValue(cells[c].zs)

\* hash() returned 2 while a handle wraps the state whose hash_value is
\* 2^32 + 2.
C19_Witness ==
  /\ ret = [op |-> "hash", val |-> 2]
  /\ Cardinality(LiveCells) = 1
  /\ \E c \in LiveCells : HashValue(cells[c].zs) = [hi |-> 1, lo |-> 2]


\* ---------------------------------------------------------------------
\* properties: the iteration protocol

\* The step gives iterator i its batch: succ_iter returns it, new or
\* recycled.
Made(i) == iters[i].st # "live" /\ iters'[i].st = "live"

\* The step is a first() or a next() of iterator i that moves its cursor.
Moved(i) ==
  /\ iters[i].st = "live" /\ iters'[i].st = "live"
  /\ iters'[i].it # iters[i].it

\* The step hands the consumer a reference to handle c, which was live and
\* which the consumer did not hold: a dst() of some iterator.
Gave(c) == cells[c].live /\ held[c] = 0 /\ held'[c] > 0

\* Iterator i is live with its cursor on handle c.
CursorOn(i, c) ==
  /\ iters[i].st = "live"
  /\ iters[i].it \in 1..Len(iters[i].cc)
  /\ iters[i].cc[iters[i].it] = c

\* The batch succ_iter built for iterator i: one handle per outgoing
\* transition of the source, in their order, each allocated by the call
\* (its cell was free before, has count 1 after, and wraps the
\* destination), and after them at most the self-loop on the source.
BuiltEagerly(i) ==
  LET outs == zg.out[iters'[i].srcz]
      cc   == iters'[i].cc
  IN /\ Len(cc) >= Len(outs) /\ Len(cc) <= Len(outs) + 1
     /\ \A k \in 1..Len(outs) :
          /\ ~cells[cc[k]].live
          /\ cells'[cc[k]].live /\ cells'[cc[k]].count = 1
          /\ cells'[cc[k]].zs = outs[k]
          /\ \A m \in 1..Len(outs) : cc[m] = cc[k] => m = k
     /\ Len(cc) > Len(outs) => outs = <<>> /\ cc = <<iters'[i].src>>
     /\ iters'[i].it = 0

\* C20: succ_iter builds the whole batch before it returns the iterator,
\* one freshly allocated handle per outgoing transition of the zone graph
\* in their order; the batch of a live iterator does not change; the cursor
\* moves only to the first member (first) or from a member to the next
\* position (next), so that first() and next() until done() visit every
\* member once in batch order, also after a recycle; each of the two
\* returns whether the cursor is on a member, so first() is true iff the
\* batch is non-empty; dst() returns the member at the cursor with its
\* count incremented by one and leaves the batch and the cursor alone.
C20_IterationProtocol ==
  [][ /\ \A i \in Iters :
           /\ Made(i) => BuiltEagerly(i)
           /\ (iters[i].st = "live" /\ iters'[i].st = "live") =>
                /\ iters'[i].cc = iters[i].cc
                /\ iters'[i].src = iters[i].src
           /\ Moved(i) =>
                /\ \/ iters'[i].it = 1
                   \/ /\ iters[i].it \in 1..Len(iters[i].cc)
                      /\ iters'[i].it = iters[i].it + 1
                /\ iters'[i].more = (iters'[i].it <= Len(iters[i].cc))
                /\ iters'[i].more = ~Done(iters'[i])
                /\ iters'[i].it = 1 => iters'[i].more = (iters[i].cc # <<>>)
                /\ cells' = cells
      /\ \A c \in Cells :
           Gave(c) =>
             /\ \E i \in Iters : CursorOn(i, c)
             /\ held'[c] = 1
             /\ cells'[c] = [cells[c] EXCEPT !.count = @ + 1]
             /\ \A e \in Cells \ {c} : cells'[e] = cells[e]
             /\ iters' = iters
    ]_vars

\* An iterator walked its batch of two handles to the second
\* one, and dst returned it.
C20_Witness ==
  \E i \in Iters :
    /\ Len(iters[i].cc) = 2
    /\ iters[i].more
    /\ CursorOn(i, iters[i].cc[2])
    /\ cells[iters[i].cc[2]].count = 2
    /\ held[iters[i].cc[2]] = 1


\* ---------------------------------------------------------------------
\* properties: the balance of references

\* Every reference that the consumer or a batch keeps is to a handle that
\* is valid: its cell is allocated and its count is positive; the count of
\* a reclaimed cell is 0, never below.
NoUnderflowNoUseAfterFree ==
  \A c \in Cells :
    /\ cells[c].count >= 0
    /\ cells[c].live <=> cells[c].count > 0
    /\ (held[c] > 0 \/ BatchRefs(c, MaxIters) > 0) => cells[c].live

\* Every iterator is destroyed, the cached one too, and the consumer has
\* released every handle it obtained.
AllReleased ==
  /\ \A i \in Iters : iters[i].st = "free"
  /\ iter_cache = 0
  /\ HeldTotal = 0

\* The step builds or releases batches: what it adds to the count of a
\* handle is what the batches gain in references to it, so that the clone
\* a self-loop takes of its source is given back, once, when the batch is
\* released, and the batches leave the count of the source as it was.
BatchesBalance ==
  \A c \in Cells :
    (cells[c].live /\ cells'[c].live /\ held'[c] = held[c]) =>
      cells'[c].count - cells[c].count =
        BatchRefs(c, MaxIters)' - BatchRefs(c, MaxIters)

\* C21: whatever calls of get_init_state, succ_iter, first, next, dst and
\* release of iterators are made, with the consumer destroying the handles
\* it obtained: no count goes below 0 and no released handle is referred
\* to; building then releasing the batch of succ_iter(s) leaves the count
\* of s as it was; and when every iterator is destroyed and every handle
\* of the consumer is released, every cell of the pool is reclaimed.
C21_ReferenceBalance ==
  /\ [](NoUnderflowNoUseAfterFree /\ (AllReleased => LiveCells = {}))
  /\ [][BatchesBalance]_vars

\* An iterator holds a self-loop on its source, which the consumer still
\* holds: the count of the source is 2.
C21_Witness ==
  \E i \in Iters :
    /\ iters[i].st = "live"
    /\ iters[i].cc = <<iters[i].src>>
    /\ held[iters[i].src] = 1
    /\ cells[iters[i].src].count = 2


\* ---------------------------------------------------------------------
\* properties: a named dead proposition

\* The dead formula is a proposition, and the adapter is in use.
DeadNamed == dead.kind = "ap" /\ pc = "ready"

\* The valuations in which the dead proposition is true, and those in
\* which it is false.
PTrue == BddIthVar(dict[dead.name].var)

PFalse == BddNithVar(dict[dead.name].var)

\* The dead proposition is true on the edges of iterator i.
OnDeadEdge(i) ==
  /\ iters[i].cc # <<>>
  /\ iters[i].cond # BddFalse
  /\ Includes(iters[i].cond, PTrue)

\* Every run of the exposed structure that starts in zone state z stays
\* in z, on edges where the dead proposition is true.
StaysDead(z) ==
  /\ KripkeSucc(z) = {z}
  /\ ReachFrom({z}) = {z}
  /\ KripkeLabel(z) # BddFalse
  /\ Includes(KripkeLabel(z), PTrue)

\* C22: with a named dead proposition P, P is true on the edges of a state
\* exactly when the zone graph gives the state no transition, and false on
\* them otherwise; an edge with P true is a self-loop: its only
\* destination is the source handle, on the same zone state; so a run that
\* takes an edge with P true stays on that self-loop, with P true, for
\* ever.
C22_DeadPropositionAbsorbs ==
  DeadNamed =>
    \A i \in Iters :
      (HasBatch(i) /\ iters[i].cc # <<>>) =>
        /\ iters[i].cond = KripkeLabel(iters[i].srcz)
        /\ OnDeadEdge(i) <=> ~SourceHasTransitions(i)
        /\ SourceHasTransitions(i) =>
             /\ iters[i].cond # BddFalse
             /\ Includes(iters[i].cond, PFalse)
        /\ OnDeadEdge(i) =>
             /\ iters[i].cc = <<iters[i].src>>
             /\ cells[iters[i].src].live
             /\ cells[iters[i].src].zs = iters[i].srcz
             /\ StaysDead(iters[i].srcz)

\* The consumer holds a handle on a dead state that is not the initial
\* one, and its iterator has the self-loop, where the dead proposition
\* holds.
C22_Witness ==
  /\ DeadNamed
  /\ \E i \in Iters :
       /\ iters[i].st = "live"
       /\ OnDeadEdge(i)
       /\ zg.out[iters[i].srcz] = <<>>
       /\ iters[i].srcz # zg.init[1]
       /\ iter_cache = 0
       /\ cells[iters[i].src].count = 2
       /\ held[iters[i].src] = 1

====
